---- MODULE Spec2Model ----
(***************************************************************************)
(* Simulation of Simplicity predicates (crate simplicity, src/src/lib.rs). *)
(*                                                                         *)
(* The predicates are pure functions of a caller-owned point list, an      *)
(* indexing function and a tuple of indices.  The state machine is the     *)
(* caller: it owns a list, calls one predicate on it, keeps the returned   *)
(* boolean, and returns to idle.  Coordinates are f64 in the source; the   *)
(* model uses small integers, on which every determinant is exact, as the  *)
(* robust_geo oracles are on floats.                                       *)
(***************************************************************************)
EXTENDS Integers, Sequences, FiniteSets, TLC

VARIABLES list, pred, args, result, calls, gen

vars == <<list, pred, args, result, calls, gen>>

\* No expansion of generate_in_hypersphere is under way
NoGen == [phase |-> "none"]

-----------------------------------------------------------------------------
(* Bounds of the model.                                                    *)

\* 1-d lists: every list of three points with coordinate in 0..MaxCoord1
MaxCoord1 == 2
\* 2-d lists: every list of four points among the first PoolSize2 of Pool2
PoolSize2 == 5
\* 3-d lists: every list of five points among the first PoolSize3 of Pool3
PoolSize3 == 2
\* Lists longer than the arity: a test list and one of the first FrameExtra
\* points of the pool
FrameExtra == 1
\* Stepwise calls: the general test list and the last StepCat test lists of
\* in_circle and of in_sphere
StepCat == 2
\* Concurrent calls
NumCalls == 2

(* Number of index arguments of each predicate.                            *)
Arity_orient_1d == 2
Arity_orient_2d == 3
Arity_orient_3d == 4
Arity_in_circle == 4
Arity_in_sphere == 5

-----------------------------------------------------------------------------
(* Vectors and the exact sign oracles of robust_geo.                       *)

\* Column id of the magnitude column (m2 / m3: sum of the squared coordinates).
MagCol == 0

\* A point with its squared magnitude appended as last component.
\* Mutant of Ext: the magnitude is not squared.
Ext_NotSquared(p) ==
    IF Len(p) = 2 THEN <<p[1], p[2], p[1] + p[2]>>
    ELSE <<p[1], p[2], p[3], p[1] + p[2] + p[3]>>

Ext(p) ==
    IF Len(p) = 2 THEN <<p[1], p[2], p[1] * p[1] + p[2] * p[2]>>
    ELSE <<p[1], p[2], p[3], p[1] * p[1] + p[2] * p[2] + p[3] * p[3]>>

\* Mutant of Entry: the swizzle z reads y.
Entry_ZReadsY(p, c) ==
    IF c = MagCol THEN p[Len(p)] ELSE IF c = 3 /\ Len(p) = 4 THEN p[2] ELSE p[c]

\* Column c of the extended point p: coordinate c, or the magnitude.
Entry(p, c) == IF c = MagCol THEN p[Len(p)] ELSE p[c]

Det2(m) == m[1][1] * m[2][2] - m[1][2] * m[2][1]

Det3(m) ==
    m[1][1] * (m[2][2] * m[3][3] - m[2][3] * m[3][2])
  - m[1][2] * (m[2][1] * m[3][3] - m[2][3] * m[3][1])
  + m[1][3] * (m[2][1] * m[3][2] - m[2][2] * m[3][1])

Det4(m) ==
    m[1][1] * Det3(<< <<m[2][2], m[2][3], m[2][4]>>, <<m[3][2], m[3][3], m[3][4]>>,
                      <<m[4][2], m[4][3], m[4][4]>> >>)
  - m[1][2] * Det3(<< <<m[2][1], m[2][3], m[2][4]>>, <<m[3][1], m[3][3], m[3][4]>>,
                      <<m[4][1], m[4][3], m[4][4]>> >>)
  + m[1][3] * Det3(<< <<m[2][1], m[2][2], m[2][4]>>, <<m[3][1], m[3][2], m[3][4]>>,
                      <<m[4][1], m[4][2], m[4][4]>> >>)
  - m[1][4] * Det3(<< <<m[2][1], m[2][2], m[2][3]>>, <<m[3][1], m[3][2], m[3][3]>>,
                      <<m[4][1], m[4][2], m[4][3]>> >>)

\* Mutant of Rel: the operands are exchanged.
Rel_Reversed(p, q, c) == Entry(q, c) - Entry(p, c)

\* Column c of p relative to q.
Rel(p, q, c) == Entry(p, c) - Entry(q, c)

\* The oracle on the points ps and the columns cols, Len(ps) = Len(cols) + 1:
\*   det | cols(ps[1]) 1 ; ... ; cols(ps[n + 1]) 1 |
\* evaluated relative to the last point.  Its instances are the coordinate
\* comparison, magnitude_cmp_3d, orient_2d, sign_det_x_x2y2(z2), orient_3d,
\* in_circle, sign_det_x_y_x2y2z2 and in_sphere of robust_geo.
SignDet(ps, cols) ==
    LET n == Len(cols)
        z == ps[n + 1]
    IN  IF n = 1 THEN Rel(ps[1], z, cols[1])
        ELSE IF n = 2 THEN
            Det2(<< <<Rel(ps[1], z, cols[1]), Rel(ps[1], z, cols[2])>>,
                    <<Rel(ps[2], z, cols[1]), Rel(ps[2], z, cols[2])>> >>)
        ELSE IF n = 3 THEN
            Det3(<< <<Rel(ps[1], z, cols[1]), Rel(ps[1], z, cols[2]), Rel(ps[1], z, cols[3])>>,
                    <<Rel(ps[2], z, cols[1]), Rel(ps[2], z, cols[2]), Rel(ps[2], z, cols[3])>>,
                    <<Rel(ps[3], z, cols[1]), Rel(ps[3], z, cols[2]), Rel(ps[3], z, cols[3])>> >>)
        ELSE
            Det4(<< <<Rel(ps[1], z, cols[1]), Rel(ps[1], z, cols[2]),
                      Rel(ps[1], z, cols[3]), Rel(ps[1], z, cols[4])>>,
                    <<Rel(ps[2], z, cols[1]), Rel(ps[2], z, cols[2]),
                      Rel(ps[2], z, cols[3]), Rel(ps[2], z, cols[4])>>,
                    <<Rel(ps[3], z, cols[1]), Rel(ps[3], z, cols[2]),
                      Rel(ps[3], z, cols[3]), Rel(ps[3], z, cols[4])>>,
                    <<Rel(ps[4], z, cols[1]), Rel(ps[4], z, cols[2]),
                      Rel(ps[4], z, cols[3]), Rel(ps[4], z, cols[4])>> >>)

-----------------------------------------------------------------------------
(* sorted_fn!: insertion sort by adjacent swaps, counting the swaps.       *)

\* Mutant of SortInner: equal neighbours are swapped too.
RECURSIVE SortInner_SwapsEqual(_, _, _)
SortInner_SwapsEqual(arr, j, num_swaps) ==
    IF j < 1 THEN <<arr, num_swaps>>
    ELSE IF arr[j] >= arr[j + 1]
         THEN SortInner_SwapsEqual([arr EXCEPT ![j] = arr[j + 1], ![j + 1] = arr[j]],
                                   j - 1, num_swaps + 1)
         ELSE <<arr, num_swaps>>

\* for j in (0..i).rev(): swap arr[j], arr[j+1] while out of order, else break
\* (0-based j of the source is position j + 1 here).
RECURSIVE SortInner(_, _, _)
SortInner(arr, j, num_swaps) ==
    IF j < 1 THEN <<arr, num_swaps>>
    ELSE IF arr[j] > arr[j + 1]
         THEN SortInner([arr EXCEPT ![j] = arr[j + 1], ![j + 1] = arr[j]],
                        j - 1, num_swaps + 1)
         ELSE <<arr, num_swaps>>

\* for i in 1..n
RECURSIVE SortOuter(_, _, _)
SortOuter(arr, i, num_swaps) ==
    IF i > Len(arr) - 1 THEN <<arr, num_swaps>>
    ELSE LET r == SortInner(arr, i, num_swaps)
         IN  SortOuter(r[1], i + 1, r[2])

\* Mutant of sorted_fn: the parity of the swaps is dropped.
sorted_fn_NoParity(arr) == <<SortOuter(arr, 1, 0)[1], FALSE>>

\* Mutant of sorted_fn: the array is returned as given.
sorted_fn_NoSort(arr) == <<arr, SortOuter(arr, 1, 0)[2] % 2 # 0>>

\* (arr, num_swaps % 2 != 0)
sorted_fn(arr) ==
    LET r == SortOuter(arr, 1, 0)
    IN  <<r[1], r[2] % 2 # 0>>

sorted_3(arr) == sorted_fn(arr)
sorted_4(arr) == sorted_fn(arr)
sorted_5(arr) == sorted_fn(arr)

-----------------------------------------------------------------------------
(* The indexer of the callers in the source: |l, i| l[i], 0-based.         *)

\* Mutant of index_fn: the entry after the one asked for.
index_fn_Next(l, i) == l[((i + 1) % Len(l)) + 1]

index_fn(l, i) == l[i + 1]

-----------------------------------------------------------------------------
(* case!: one sign test of a cascade.  A case is <<rows, cols>>: rows are  *)
(* positions in the sorted point tuple (1 = pi, 2 = pj, 3 = pk, 4 = pl,    *)
(* 5 = pm) in the order the macro passes them to the oracle, cols are the  *)
(* columns the swizzle selects (1 = x, 2 = y, 3 = z, MagCol for m2 / m3).  *)

Rows(rows, ps) ==
    IF Len(rows) = 2 THEN <<ps[rows[1]], ps[rows[2]]>>
    ELSE IF Len(rows) = 3 THEN <<ps[rows[1]], ps[rows[2]], ps[rows[3]]>>
    ELSE IF Len(rows) = 4 THEN <<ps[rows[1]], ps[rows[2]], ps[rows[3]], ps[rows[4]]>>
    ELSE <<ps[rows[1]], ps[rows[2]], ps[rows[3]], ps[rows[4]], ps[rows[5]]>>

\* Mutant of CaseVal: the comparison of two points ignores its swizzle and
\* compares x.
CaseVal_ComparesX(c, ps) ==
    IF Len(c[1]) = 2 /\ c[2] # <<MagCol>> THEN SignDet(Rows(c[1], ps), <<1>>)
    ELSE SignDet(Rows(c[1], ps), c[2])

CaseVal(c, ps) == SignDet(Rows(c[1], ps), c[2])

\* Mutant of FirstNonzero: only the first case is tested.
FirstNonzero_OnlyFirst(cases, n, ps) ==
    IF n > 1 \/ n > Len(cases) THEN <<0, 0>>
    ELSE <<IF CaseVal(cases[n], ps) # 0 THEN n ELSE 0, CaseVal(cases[n], ps)>>

\* Mutant of FirstNonzero: the last case is not tested.
RECURSIVE FirstNonzero_SkipsLast(_, _, _)
FirstNonzero_SkipsLast(cases, n, ps) ==
    IF n >= Len(cases) THEN <<0, 0>>
    ELSE LET val == CaseVal(cases[n], ps)
         IN  IF val # 0 THEN <<n, val>> ELSE FirstNonzero_SkipsLast(cases, n + 1, ps)

\* The first case at or after n whose value is nonzero, as <<n, val>>;
\* <<0, 0>> when every case is zero (control reaches the final `!odd`).
RECURSIVE FirstNonzero(_, _, _)
FirstNonzero(cases, n, ps) ==
    IF n > Len(cases) THEN <<0, 0>>
    ELSE LET val == CaseVal(cases[n], ps)
         IN  IF val # 0 THEN <<n, val>> ELSE FirstNonzero(cases, n + 1, ps)

\* Mutant of Cascade: a nonzero value is returned without the parity.
Cascade_ParityDropped(cases, ps, odd) ==
    LET d == FirstNonzero(cases, 1, ps)
    IN  IF d[1] = 0 THEN ~odd ELSE d[2] > 0

\* Mutant of Cascade: the final return is odd, not !odd.
Cascade_TieBreakOdd(cases, ps, odd) ==
    LET d == FirstNonzero(cases, 1, ps)
    IN  IF d[1] = 0 THEN odd ELSE (d[2] > 0) # odd

\* if val != 0.0 { return (val > 0.0) != odd; } ... !odd
Cascade(cases, ps, odd) ==
    LET d == FirstNonzero(cases, 1, ps)
    IN  IF d[1] = 0 THEN ~odd ELSE (d[2] > 0) # odd

\* Mutant of orient_2d_cases: the second case compares pj with pk, not pk
\* with pj.
orient_2d_cases_Case2Reversed ==
    <<<<<<1, 2, 3>>, <<1, 2>>>>,
      <<<<2, 3>>, <<1>>>>,
      <<<<2, 3>>, <<2>>>>,
      <<<<1, 3>>, <<1>>>> >>

\* orient_2d: the case! lines 252-255, in order (4 cases)
orient_2d_cases ==
    <<<<<<1, 2, 3>>, <<1, 2>>>>,
      <<<<3, 2>>, <<1>>>>,
      <<<<2, 3>>, <<2>>>>,
      <<<<1, 3>>, <<1>>>> >>

\* orient_3d: the case! lines 300-313, in order (13 cases)
orient_3d_cases ==
    <<<<<<1, 2, 3, 4>>, <<1, 2, 3>>>>,
      <<<<2, 3, 4>>, <<1, 2>>>>,
      <<<<2, 3, 4>>, <<3, 1>>>>,
      <<<<2, 3, 4>>, <<2, 3>>>>,
      <<<<1, 3, 4>>, <<2, 1>>>>,
      <<<<3, 4>>, <<1>>>>,
      <<<<4, 3>>, <<2>>>>,
      <<<<1, 3, 4>>, <<1, 3>>>>,
      <<<<3, 4>>, <<3>>>>,
      <<<<1, 2, 4>>, <<1, 2>>>>,
      <<<<4, 2>>, <<1>>>>,
      <<<<2, 4>>, <<2>>>>,
      <<<<1, 4>>, <<1>>>> >>

\* in_circle: the case! lines 357-370, in order (11 cases)
in_circle_cases ==
    <<<<<<1, 2, 3, 4>>, <<1, 2, 0>>>>,
      <<<<2, 3, 4>>, <<1, 2>>>>,
      <<<<2, 4, 3>>, <<1, 0>>>>,
      <<<<2, 3, 4>>, <<2, 0>>>>,
      <<<<1, 3, 4>>, <<2, 1>>>>,
      <<<<3, 4>>, <<1>>>>,
      <<<<4, 3>>, <<2>>>>,
      <<<<1, 2, 4>>, <<1, 2>>>>,
      <<<<4, 2>>, <<1>>>>,
      <<<<2, 4>>, <<2>>>>,
      <<<<1, 4>>, <<1>>>> >>

\* in_sphere: the case! lines 416-464, in order (48 cases)
in_sphere_cases ==
    <<<<<<1, 2, 3, 4, 5>>, <<1, 2, 3, 0>>>>,
      <<<<2, 3, 5, 4>>, <<1, 2, 3>>>>,
      <<<<2, 3, 4, 5>>, <<1, 2, 0>>>>,
      <<<<2, 3, 4, 5>>, <<3, 1, 0>>>>,
      <<<<2, 3, 4, 5>>, <<2, 3, 0>>>>,
      <<<<1, 3, 4, 5>>, <<1, 2, 3>>>>,
      <<<<3, 4, 5>>, <<1, 2>>>>,
      <<<<3, 4, 5>>, <<3, 1>>>>,
      <<<<3, 4, 5>>, <<2, 3>>>>,
      <<<<1, 3, 4, 5>>, <<2, 1, 0>>>>,
      <<<<3, 4, 5>>, <<1, 0>>>>,
      <<<<3, 5, 4>>, <<2, 0>>>>,
      <<<<1, 3, 4, 5>>, <<1, 3, 0>>>>,
      <<<<3, 4, 5>>, <<3, 0>>>>,
      <<<<1, 3, 4, 5>>, <<3, 2, 0>>>>,
      <<<<1, 2, 5, 4>>, <<1, 2, 3>>>>,
      <<<<2, 4, 5>>, <<2, 1>>>>,
      <<<<2, 4, 5>>, <<1, 3>>>>,
      <<<<2, 4, 5>>, <<3, 2>>>>,
      <<<<1, 4, 5>>, <<1, 2>>>>,
      <<<<5, 4>>, <<1>>>>,
      <<<<4, 5>>, <<2>>>>,
      <<<<1, 4, 5>>, <<3, 1>>>>,
      <<<<5, 4>>, <<3>>>>,
      <<<<1, 4, 5>>, <<2, 3>>>>,
      <<<<1, 2, 4, 5>>, <<1, 2, 0>>>>,
      <<<<2, 5, 4>>, <<1, 0>>>>,
      <<<<2, 4, 5>>, <<2, 0>>>>,
      <<<<1, 4, 5>>, <<1, 0>>>>,
      <<<<4, 5>>, <<0>>>>,
      <<<<1, 5, 4>>, <<2, 0>>>>,
      <<<<1, 2, 4, 5>>, <<3, 1, 0>>>>,
      <<<<2, 5, 4>>, <<3, 0>>>>,
      <<<<1, 4, 5>>, <<3, 0>>>>,
      <<<<1, 2, 4, 5>>, <<2, 3, 0>>>>,
      <<<<1, 2, 3, 5>>, <<1, 2, 3>>>>,
      <<<<2, 3, 5>>, <<1, 2>>>>,
      <<<<2, 3, 5>>, <<3, 1>>>>,
      <<<<2, 3, 5>>, <<2, 3>>>>,
      <<<<1, 3, 5>>, <<2, 1>>>>,
      <<<<3, 5>>, <<1>>>>,
      <<<<5, 3>>, <<2>>>>,
      <<<<1, 3, 5>>, <<1, 3>>>>,
      <<<<3, 5>>, <<3>>>>,
      <<<<1, 2, 5>>, <<1, 2>>>>,
      <<<<5, 2>>, <<1>>>>,
      <<<<2, 5>>, <<2>>>>,
      <<<<1, 5>>, <<1>>>> >>

-----------------------------------------------------------------------------
(* The predicates.                                                         *)

\* Mutant of orient_1d: the index tie-break is dropped.
orient_1d_NoTieBreak(l, i, j) == index_fn(l, i)[1] >= index_fn(l, j)[1]

orient_1d(l, i, j) ==
    LET p_i == index_fn(l, i)
        p_j == index_fn(l, j)
    IN  p_i[1] > p_j[1] \/ (p_i[1] = p_j[1] /\ i < j)

orient_2d(l, i, j, k) ==
    LET s == sorted_3(<<i, j, k>>)
    IN  Cascade(orient_2d_cases,
                <<Ext(index_fn(l, s[1][1])), Ext(index_fn(l, s[1][2])),
                  Ext(index_fn(l, s[1][3]))>>,
                s[2])

orient_3d(l, i, j, k, m) ==
    LET s == sorted_4(<<i, j, k, m>>)
    IN  Cascade(orient_3d_cases,
                <<Ext(index_fn(l, s[1][1])), Ext(index_fn(l, s[1][2])),
                  Ext(index_fn(l, s[1][3])), Ext(index_fn(l, s[1][4]))>>,
                s[2])

\* Mutant of in_circle: flip is taken after the sort has shadowed i, j, k.
in_circle_FlipAfterSort(l, i, j, k, m) ==
    LET s == sorted_4(<<i, j, k, m>>)
        flip == ~orient_2d(l, s[1][1], s[1][2], s[1][3])
    IN  Cascade(in_circle_cases,
                <<Ext(index_fn(l, s[1][1])), Ext(index_fn(l, s[1][2])),
                  Ext(index_fn(l, s[1][3])), Ext(index_fn(l, s[1][4]))>>,
                s[2] # flip)

\* Mutant of in_circle: the orientation of the first three points is ignored.
in_circle_NoFlip(l, i, j, k, m) ==
    LET s == sorted_4(<<i, j, k, m>>)
    IN  Cascade(in_circle_cases,
                <<Ext(index_fn(l, s[1][1])), Ext(index_fn(l, s[1][2])),
                  Ext(index_fn(l, s[1][3])), Ext(index_fn(l, s[1][4]))>>,
                s[2])

in_circle(l, i, j, k, m) ==
    LET flip == ~orient_2d(l, i, j, k)
        s == sorted_4(<<i, j, k, m>>)
    IN  Cascade(in_circle_cases,
                <<Ext(index_fn(l, s[1][1])), Ext(index_fn(l, s[1][2])),
                  Ext(index_fn(l, s[1][3])), Ext(index_fn(l, s[1][4]))>>,
                s[2] # flip)

\* Mutant of in_sphere: flip is taken after the sort has shadowed i, j, k, l.
in_sphere_FlipAfterSort(l, i, j, k, m, n) ==
    LET s == sorted_5(<<i, j, k, m, n>>)
        flip == ~orient_3d(l, s[1][1], s[1][2], s[1][3], s[1][4])
    IN  Cascade(in_sphere_cases,
                <<Ext(index_fn(l, s[1][1])), Ext(index_fn(l, s[1][2])),
                  Ext(index_fn(l, s[1][3])), Ext(index_fn(l, s[1][4])),
                  Ext(index_fn(l, s[1][5]))>>,
                s[2] # flip)

\* Mutant of in_sphere: the orientation of the first four points is ignored.
in_sphere_NoFlip(l, i, j, k, m, n) ==
    LET s == sorted_5(<<i, j, k, m, n>>)
    IN  Cascade(in_sphere_cases,
                <<Ext(index_fn(l, s[1][1])), Ext(index_fn(l, s[1][2])),
                  Ext(index_fn(l, s[1][3])), Ext(index_fn(l, s[1][4])),
                  Ext(index_fn(l, s[1][5]))>>,
                s[2])

in_sphere(l, i, j, k, m, n) ==
    LET flip == ~orient_3d(l, i, j, k, m)
        s == sorted_5(<<i, j, k, m, n>>)
    IN  Cascade(in_sphere_cases,
                <<Ext(index_fn(l, s[1][1])), Ext(index_fn(l, s[1][2])),
                  Ext(index_fn(l, s[1][3])), Ext(index_fn(l, s[1][4])),
                  Ext(index_fn(l, s[1][5]))>>,
                s[2] # flip)

-----------------------------------------------------------------------------
(* The caller's lists.                                                     *)

\* The point lists of tests::test_orient_2d (lines 722-726), in order.
test_orient_2d_lists ==
    << <<<<0, 0>>, <<1, 0>>, <<2, 1>>>>,
       <<<<0, 0>>, <<1, 1>>, <<2, 2>>>>,
       <<<<0, 0>>, <<0, 2>>, <<0, 1>>>>,
       <<<<1, 0>>, <<0, 2>>, <<0, 2>>>>,
       <<<<0, 0>>, <<0, 2>>, <<0, 2>>>> >>

\* The point lists of tests::test_orient_3d (lines 742-756), in order.
test_orient_3d_lists ==
    << <<<<0, 0, 0>>, <<0, 0, 1>>, <<0, 1, 0>>, <<1, 0, 0>>>>,
       <<<<0, 0, 0>>, <<1, 1, 1>>, <<3, 4, 5>>, <<2, 3, 4>>>>,
       <<<<0, 0, 0>>, <<1, 1, 1>>, <<2, 2, 4>>, <<3, 3, 5>>>>,
       <<<<1, 0, 0>>, <<1, 1, 1>>, <<1, 4, 2>>, <<1, 5, 3>>>>,
       <<<<0, 0, 0>>, <<1, 2, 3>>, <<2, 3, 4>>, <<3, 4, 5>>>>,
       <<<<0, 0, 0>>, <<1, 1, 3>>, <<3, 3, 5>>, <<2, 2, 4>>>>,
       <<<<0, 0, 0>>, <<0, 1, 3>>, <<0, 2, 4>>, <<0, 3, 5>>>>,
       <<<<1, 0, 0>>, <<0, 2, 3>>, <<0, 2, 5>>, <<0, 2, 4>>>>,
       <<<<0, 0, 0>>, <<0, 2, 3>>, <<0, 2, 4>>, <<0, 2, 3>>>>,
       <<<<0, 0, 0>>, <<1, 0, 0>>, <<2, 1, 0>>, <<2, 1, 0>>>>,
       <<<<0, 0, 0>>, <<1, 1, 0>>, <<2, 2, 0>>, <<2, 2, 0>>>>,
       <<<<0, 0, 0>>, <<0, 2, 0>>, <<0, 1, 0>>, <<0, 1, 0>>>>,
       <<<<1, 0, 0>>, <<0, 2, 0>>, <<0, 2, 0>>, <<0, 2, 0>>>>,
       <<<<0, 0, 0>>, <<0, 2, 0>>, <<0, 2, 0>>, <<0, 2, 0>>>> >>

\* The point lists of tests::test_in_circle (lines 769-783), in order.
test_in_circle_lists ==
    << <<<<0, 0>>, <<0, 2>>, <<2, 2>>, <<1, 1>>>>,
       <<<<1, 0>>, <<3, 1>>, <<2, 3>>, <<0, 2>>>>,
       <<<<0, 0>>, <<1, 1>>, <<3, 3>>, <<2, 2>>>>,
       <<<<1, 0>>, <<1, 5>>, <<1, 1>>, <<1, 4>>>>,
       <<<<1, 1>>, <<0, 0>>, <<0, 0>>, <<2, 3>>>>,
       <<<<2, 2>>, <<1, 1>>, <<1, 1>>, <<0, 0>>>>,
       <<<<1, 2>>, <<1, 0>>, <<1, 0>>, <<1, 1>>>>,
       <<<<0, 0>>, <<1, 0>>, <<2, 1>>, <<2, 1>>>>,
       <<<<0, 0>>, <<1, 1>>, <<2, 2>>, <<2, 2>>>>,
       <<<<0, 0>>, <<0, 2>>, <<0, 1>>, <<0, 1>>>>,
       <<<<1, 0>>, <<0, 2>>, <<0, 2>>, <<0, 2>>>>,
       <<<<0, 0>>, <<0, 2>>, <<0, 2>>, <<0, 2>>>> >>

\* The point lists of tests::test_in_sphere (lines 807-856), in order.
test_in_sphere_lists ==
    << <<<<0, 0, 0>>, <<4, 0, 0>>, <<0, 4, 0>>, <<0, 0, 4>>, <<1, 1, 1>>>>,
       <<<<0, 0, 0>>, <<2, 0, 0>>, <<2, 2, 2>>, <<2, 2, 0>>, <<0, 2, 2>>>>,
       <<<<0, 0, 0>>, <<1, 1, 1>>, <<2, 2, 2>>, <<2, 4, 4>>, <<2, 3, 3>>>>,
       <<<<2, 2, 2>>, <<0, 0, 2>>, <<2, 2, 0>>, <<0, 0, 1>>, <<1, 1, 0>>>>,
       <<<<0, 1, 0>>, <<0, 2, 0>>, <<0, 2, 1>>, <<0, 1, 2>>, <<0, 1, 1>>>>,
       <<<<0, 0, 0>>, <<1, 0, 0>>, <<1, 0, 0>>, <<0, 0, 1>>, <<0, 1, 0>>>>,
       <<<<2, 0, 0>>, <<2, 0, 0>>, <<2, 0, 0>>, <<2, 1, 0>>, <<1, 0, 0>>>>,
       <<<<0, 0, 0>>, <<0, 0, 0>>, <<1, 0, 0>>, <<0, 0, 0>>, <<0, 0, 1>>>>,
       <<<<0, 0, 0>>, <<0, 0, 0>>, <<0, 0, 0>>, <<0, 1, 0>>, <<0, 0, 1>>>>,
       <<<<2, 0, 2>>, <<1, 2, 1>>, <<1, 0, 1>>, <<1, 2, 1>>, <<1, 1, 1>>>>,
       <<<<2, 0, 0>>, <<2, 0, 1>>, <<2, 0, 1>>, <<0, 0, 1>>, <<1, 0, 1>>>>,
       <<<<0, 1, 0>>, <<0, 1, 1>>, <<0, 2, 1>>, <<0, 0, 1>>, <<0, 1, 1>>>>,
       <<<<0, 0, 2>>, <<1, 0, 2>>, <<1, 0, 0>>, <<1, 0, 2>>, <<1, 0, 1>>>>,
       <<<<0, 1, 2>>, <<0, 2, 1>>, <<0, 2, 2>>, <<0, 2, 0>>, <<0, 2, 1>>>>,
       <<<<0, 0, 0>>, <<1, 0, 0>>, <<0, 1, 0>>, <<0, 1, 0>>, <<0, 0, 1>>>>,
       <<<<0, 2, 0>>, <<0, 2, 0>>, <<1, 2, 0>>, <<1, 2, 0>>, <<0, 1, 0>>>>,
       <<<<0, 0, 0>>, <<0, 0, 0>>, <<1, 0, 0>>, <<1, 0, 0>>, <<0, 0, 1>>>>,
       <<<<0, 0, 0>>, <<0, 0, 0>>, <<0, 1, 0>>, <<0, 0, 1>>, <<0, 1, 0>>>>,
       <<<<0, 0, 0>>, <<1, 0, 0>>, <<0, 1, 0>>, <<1, 0, 0>>, <<0, 1, 0>>>>,
       <<<<0, 0, 0>>, <<0, 0, 0>>, <<0, 0, 0>>, <<0, 0, 0>>, <<1, 0, 0>>>>,
       <<<<0, 2, 0>>, <<0, 2, 0>>, <<0, 2, 0>>, <<0, 2, 0>>, <<0, 1, 0>>>>,
       <<<<0, 0, 0>>, <<1, 0, 0>>, <<1, 0, 0>>, <<1, 0, 1>>, <<1, 0, 0>>>>,
       <<<<0, 0, 0>>, <<0, 0, 0>>, <<0, 0, 0>>, <<0, 0, 0>>, <<0, 0, 1>>>>,
       <<<<0, 0, 0>>, <<1, 1, 1>>, <<0, 1, 0>>, <<1, 0, 0>>, <<1, 0, 0>>>>,
       <<<<0, 0, 0>>, <<1, 1, 1>>, <<3, 4, 5>>, <<2, 3, 4>>, <<2, 3, 4>>>>,
       <<<<0, 0, 0>>, <<1, 1, 1>>, <<2, 2, 4>>, <<3, 3, 5>>, <<3, 3, 5>>>>,
       <<<<1, 0, 0>>, <<1, 1, 1>>, <<1, 4, 2>>, <<1, 5, 3>>, <<1, 5, 3>>>>,
       <<<<0, 0, 0>>, <<1, 2, 3>>, <<2, 3, 4>>, <<3, 4, 5>>, <<3, 4, 5>>>>,
       <<<<0, 0, 0>>, <<1, 1, 3>>, <<3, 3, 5>>, <<2, 2, 4>>, <<2, 2, 4>>>>,
       <<<<0, 0, 0>>, <<0, 1, 3>>, <<0, 2, 4>>, <<0, 3, 5>>, <<0, 3, 5>>>>,
       <<<<1, 0, 0>>, <<0, 2, 3>>, <<0, 2, 5>>, <<0, 2, 4>>, <<0, 2, 4>>>>,
       <<<<0, 0, 0>>, <<0, 2, 3>>, <<0, 2, 4>>, <<0, 2, 3>>, <<0, 2, 3>>>>,
       <<<<0, 0, 0>>, <<1, 0, 0>>, <<2, 1, 0>>, <<2, 1, 0>>, <<2, 1, 0>>>>,
       <<<<0, 0, 0>>, <<1, 1, 0>>, <<2, 2, 0>>, <<2, 2, 0>>, <<2, 2, 0>>>>,
       <<<<0, 0, 0>>, <<0, 2, 0>>, <<0, 1, 0>>, <<0, 1, 0>>, <<0, 1, 0>>>>,
       <<<<1, 0, 0>>, <<0, 2, 0>>, <<0, 2, 0>>, <<0, 2, 0>>, <<0, 2, 0>>>>,
       <<<<0, 0, 0>>, <<0, 2, 0>>, <<0, 2, 0>>, <<0, 2, 0>>, <<0, 2, 0>>>> >>

Range(s) == {s[n] : n \in 1..Len(s)}

Min(a, b) == IF a < b THEN a ELSE b

Pool2 == << <<0, 0>>, <<1, 0>>, <<0, 1>>, <<1, 1>>, <<2, 0>>, <<2, 1>>, <<1, 2>> >>
Pool3 == << <<0, 0, 0>>, <<1, 0, 0>>, <<0, 1, 0>>, <<0, 0, 1>>, <<2, 0, 0>>, <<1, 1, 1>> >>

Points1 == {<<x>> : x \in 0..MaxCoord1}
Points2 == {Pool2[n] : n \in 1..Min(PoolSize2, Len(Pool2))}
Points3 == {Pool3[n] : n \in 1..Min(PoolSize3, Len(Pool3))}

Lists1 == [1..(Arity_orient_1d + 1) -> Points1]
Lists2 == [1..Arity_in_circle -> Points2]
             \cup Range(test_orient_2d_lists) \cup Range(test_in_circle_lists)
Lists3 == [1..Arity_in_sphere -> Points3]
             \cup Range(test_orient_3d_lists) \cup Range(test_in_sphere_lists)

Dim(l) == Len(l[1])

\* In-range indices of l, 0-based as in the source.
Indices(l) == 0..(Len(l) - 1)

Distinct(t) == \A a, b \in 1..Len(t) : a # b => t[a] # t[b]

\* Tuples of n pairwise distinct indices below len.
DistinctTuples ==
    [n \in 2..5 |-> [len \in 2..6 |-> {t \in [1..n -> 0..(len - 1)] : Distinct(t)}]]

Tuples(l, n) == DistinctTuples[n][Len(l)]

-----------------------------------------------------------------------------
(* The caller.                                                             *)

Idle == pred = "none"

Init ==
    /\ list \in Lists1 \cup Lists2 \cup Lists3
    /\ pred = "none"
    /\ args = <<>>
    /\ result = FALSE
    /\ calls = <<>>
    /\ gen = NoGen

Call_orient_1d ==
    /\ Idle /\ Dim(list) = 1
    /\ \E i, j \in Indices(list) :
          /\ pred' = "orient_1d"
          /\ args' = <<i, j>>
          /\ result' = orient_1d(list, i, j)
    /\ UNCHANGED <<list, calls, gen>>

Call_orient_2d ==
    /\ Idle /\ Dim(list) = 2
    /\ \E t \in Tuples(list, Arity_orient_2d) :
          /\ pred' = "orient_2d"
          /\ args' = t
          /\ result' = orient_2d(list, t[1], t[2], t[3])
    /\ UNCHANGED <<list, calls, gen>>

Call_orient_3d ==
    /\ Idle /\ Dim(list) = 3
    /\ \E t \in Tuples(list, Arity_orient_3d) :
          /\ pred' = "orient_3d"
          /\ args' = t
          /\ result' = orient_3d(list, t[1], t[2], t[3], t[4])
    /\ UNCHANGED <<list, calls, gen>>

Call_in_circle ==
    /\ Idle /\ Dim(list) = 2 /\ Len(list) >= Arity_in_circle
    /\ \E t \in Tuples(list, Arity_in_circle) :
          /\ pred' = "in_circle"
          /\ args' = t
          /\ result' = in_circle(list, t[1], t[2], t[3], t[4])
    /\ UNCHANGED <<list, calls, gen>>

Call_in_sphere ==
    /\ Idle /\ Dim(list) = 3 /\ Len(list) >= Arity_in_sphere
    /\ \E t \in Tuples(list, Arity_in_sphere) :
          /\ pred' = "in_sphere"
          /\ args' = t
          /\ result' = in_sphere(list, t[1], t[2], t[3], t[4], t[5])
    /\ UNCHANGED <<list, calls, gen>>

\* The call has returned; the caller drops the boolean.
Return ==
    /\ ~Idle
    /\ pred' = "none"
    /\ args' = <<>>
    /\ result' = FALSE
    /\ UNCHANGED <<list, calls, gen>>

Next ==
    \/ Call_orient_1d
    \/ Call_orient_2d
    \/ Call_orient_3d
    \/ Call_in_circle
    \/ Call_in_sphere
    \/ Return

Spec == Init /\ [][Next]_vars

-----------------------------------------------------------------------------
(* The orientation predicates alone: lists as long as the arity, and the   *)
(* test lists.                                                             *)

\* Four collinear points in space.
Collinear3 == << <<0, 0, 0>>, <<1, 1, 1>>, <<2, 2, 2>>, <<3, 3, 3>> >>

OrientLists ==
    Lists1 \cup [1..Arity_orient_2d -> Points2] \cup [1..Arity_orient_3d -> Points3]
        \cup {Collinear3}
        \cup Range(test_orient_2d_lists) \cup Range(test_in_circle_lists)
        \cup Range(test_orient_3d_lists) \cup Range(test_in_sphere_lists)

InitOrient ==
    /\ list \in OrientLists
    /\ pred = "none"
    /\ args = <<>>
    /\ result = FALSE
    /\ calls = <<>>
    /\ gen = NoGen

NextOrient ==
    \/ Call_orient_1d
    \/ Call_orient_2d
    \/ Call_orient_3d
    \/ Return

SpecOrient == InitOrient /\ [][NextOrient]_vars

-----------------------------------------------------------------------------
(* The predicates on lists longer than their arity: the test lists of      *)
(* in_circle and in_sphere with one more point.                            *)

FrameLists ==
    Lists1
        \cup {Append(b, Pool2[n]) : b \in Range(test_in_circle_lists), n \in 1..FrameExtra}
        \cup {Append(b, Pool3[n]) : b \in Range(test_in_sphere_lists), n \in 1..FrameExtra}

InitFrame ==
    /\ list \in FrameLists
    /\ pred = "none"
    /\ args = <<>>
    /\ result = FALSE
    /\ calls = <<>>
    /\ gen = NoGen

SpecFrame == InitFrame /\ [][Next]_vars

-----------------------------------------------------------------------------
(* The predicates step by step.  calls[c] is the stack storage of call c:  *)
(* the activations of the predicate and of the orientation predicate it    *)
(* calls, the indices handed to the indexer so far, and the steps taken.   *)
(* A step is an entry, the nested call, the sort, one indexer invocation,  *)
(* one case! of the cascade, the final expression, or a return.            *)

\* The index arguments but the last: i, j, k of in_circle's i, j, k, l.
FirstArgsOf(t) == SubSeq(t, 1, Len(t) - 1)

Preds == {"orient_1d", "orient_2d", "orient_3d", "in_circle", "in_sphere"}

ArityOf(p) ==
    CASE p = "orient_1d" -> Arity_orient_1d
      [] p = "orient_2d" -> Arity_orient_2d
      [] p = "orient_3d" -> Arity_orient_3d
      [] p = "in_circle" -> Arity_in_circle
      [] p = "in_sphere" -> Arity_in_sphere

DimOf(p) ==
    CASE p = "orient_1d" -> 1
      [] p \in {"orient_2d", "in_circle"} -> 2
      [] p \in {"orient_3d", "in_sphere"} -> 3

CasesOf(p) ==
    CASE p = "orient_1d" -> <<>>
      [] p = "orient_2d" -> orient_2d_cases
      [] p = "orient_3d" -> orient_3d_cases
      [] p = "in_circle" -> in_circle_cases
      [] p = "in_sphere" -> in_sphere_cases

\* in_circle and in_sphere begin with a call of orient_2d / orient_3d.
Nests(p) == p \in {"in_circle", "in_sphere"}

NestedOf(p) == IF p = "in_circle" THEN "orient_2d" ELSE "orient_3d"

\* The activation of fn on the index arguments t, at its first statement.
Activation(fn, t) ==
    [fn |-> fn, args |-> t,
     pc |-> IF Nests(fn) THEN "nest" ELSE IF fn = "orient_1d" THEN "fetch" ELSE "sort",
     arr |-> t, odd |-> FALSE, flip |-> FALSE, pts |-> <<>>,
     n |-> 1, tests |-> 0, ret |-> FALSE]

NoCall ==
    [status |-> "idle", stack |-> <<>>, fetched |-> <<>>, counts |-> <<>>,
     steps |-> 0, result |-> FALSE]

Top(c) == calls[c].stack[Len(calls[c].stack)]

Running(c) == calls[c].status = "running"

At(c, pc) == Running(c) /\ Top(c).pc = pc

\* Mutant of Store: the fetched points live in storage shared by the
\* running calls.
Store_SharedPoints(c, f) ==
    [d \in DOMAIN calls |->
        IF d = c THEN f
        ELSE IF calls[d].status = "running" /\ f.status = "running"
             THEN [calls[d] EXCEPT !.stack[Len(calls[d].stack)].pts = f.stack[Len(f.stack)].pts]
             ELSE calls[d]]

\* Call c writes its own stack storage.
Store(c, f) == [calls EXCEPT ![c] = f]

\* Call c replaces its top activation by a and counts a step.
Advance(c, a) ==
    Store(c, [calls[c] EXCEPT !.stack[Len(calls[c].stack)] = a,
                              !.steps = calls[c].steps + 1])

\* Mutant of NextCase: the cascade does not move on.
NextCase_Same(n) == n

\* The case! following case n.
NextCase(n) == n + 1

\* Every tuple of n in-range indices of l, distinct or not.
AnyTuples ==
    [n \in 2..5 |-> [len \in 2..5 |-> [1..n -> 0..(len - 1)]]]

StepTuples(l, n) == AnyTuples[n][Len(l)]

\* The predicate p is entered with the index arguments t.
Begin(c, p, t) ==
    /\ calls' = Store(c, [NoCall EXCEPT !.status = "running",
                                        !.stack = <<Activation(p, t)>>])
    /\ UNCHANGED <<list, pred, args, result, gen>>

Enter(c) ==
    /\ calls[c].status = "idle"
    /\ \E p \in Preds :
          /\ DimOf(p) = Dim(list)
          /\ \E t \in StepTuples(list, ArityOf(p)) : Begin(c, p, t)

\* let flip = !orient_2d(list, index_fn.clone(), i, j, k): the call.
Nest(c) ==
    /\ At(c, "nest")
    /\ LET a == Top(c)
           f == [calls[c] EXCEPT !.stack[Len(calls[c].stack)].pc = "wait",
                                 !.steps = calls[c].steps + 1]
       IN  calls' = Store(c, [f EXCEPT !.stack = Append(f.stack,
                                 Activation(NestedOf(a.fn), FirstArgsOf(a.args)))])
    /\ UNCHANGED <<list, pred, args, result, gen>>

\* let ([i, j, k], odd) = sorted_3([i, j, k]); let odd = odd != flip;
Sort(c) ==
    /\ At(c, "sort")
    /\ LET a == Top(c)
           s == sorted_fn(a.args)
       IN  calls' = Advance(c, [a EXCEPT !.arr = s[1],
                                         !.odd = IF Nests(a.fn) THEN s[2] # a.flip ELSE s[2],
                                         !.pc = "fetch"])
    /\ UNCHANGED <<list, pred, args, result, gen>>

\* Mutant of FetchIndex: every point is fetched at the first index.
FetchIndex_First(a) == a.arr[1]

\* The index of the next point the activation a fetches: i, then j, ...
FetchIndex(a) == a.arr[Len(a.pts) + 1]

\* let pi = index_fn(list, i): one invocation of the indexer.
Fetch(c) ==
    /\ At(c, "fetch")
    /\ LET a == Top(c)
           i == FetchIndex(a)
           b == [a EXCEPT !.pts = Append(a.pts, index_fn(list, i)),
                          !.pc = IF Len(a.pts) + 1 < Len(a.arr) THEN "fetch"
                                 ELSE IF a.fn = "orient_1d" THEN "compare" ELSE "case"]
       IN  /\ i \in Indices(list)
           /\ calls' = [Advance(c, b) EXCEPT ![c].fetched = Append(calls[c].fetched, i)]
    /\ UNCHANGED <<list, pred, args, result, gen>>

\* case!(...): one sign test; a nonzero value returns.
Test(c) ==
    /\ At(c, "case")
    /\ Top(c).n <= Len(CasesOf(Top(c).fn))
    /\ LET a == Top(c)
           val == CaseVal(CasesOf(a.fn)[a.n], [q \in 1..Len(a.pts) |-> Ext(a.pts[q])])
       IN  calls' = Advance(c,
               IF val # 0
               THEN [a EXCEPT !.tests = a.tests + 1, !.ret = (val > 0) # a.odd, !.pc = "ret"]
               ELSE [a EXCEPT !.tests = a.tests + 1, !.n = NextCase(a.n)])
    /\ UNCHANGED <<list, pred, args, result, gen>>

\* !odd: every case was zero.
TieBreak(c) ==
    /\ At(c, "case")
    /\ Top(c).n > Len(CasesOf(Top(c).fn))
    /\ calls' = Advance(c, [Top(c) EXCEPT !.ret = ~Top(c).odd, !.pc = "ret"])
    /\ UNCHANGED <<list, pred, args, result, gen>>

\* pi > pj || (pi == pj && i < j)
Compare(c) ==
    /\ At(c, "compare")
    /\ LET a == Top(c)
       IN  calls' = Advance(c, [a EXCEPT
               !.ret = a.pts[1][1] > a.pts[2][1]
                         \/ (a.pts[1][1] = a.pts[2][1] /\ a.arr[1] < a.arr[2]),
               !.pc = "ret"])
    /\ UNCHANGED <<list, pred, args, result, gen>>

\* The nested orientation call returns: flip = !(its result).
Leave(c) ==
    /\ At(c, "ret")
    /\ Len(calls[c].stack) > 1
    /\ LET a == Top(c)
           k == Len(calls[c].stack) - 1
           f == calls[c]
       IN  calls' = Store(c, [f EXCEPT
               !.stack = [SubSeq(f.stack, 1, k) EXCEPT ![k].flip = ~a.ret, ![k].pc = "sort"],
               !.counts = Append(f.counts, a.tests),
               !.steps = f.steps + 1])
    /\ UNCHANGED <<list, pred, args, result, gen>>

\* The predicate returns its boolean to the caller.
Finish(c) ==
    /\ At(c, "ret")
    /\ Len(calls[c].stack) = 1
    /\ calls' = Store(c, [calls[c] EXCEPT !.status = "done",
                                          !.result = Top(c).ret,
                                          !.counts = Append(calls[c].counts, Top(c).tests),
                                          !.steps = calls[c].steps + 1])
    /\ UNCHANGED <<list, pred, args, result, gen>>

\* The caller drops the boolean; the stack storage is free again.
Release(c) ==
    /\ calls[c].status = "done"
    /\ calls' = Store(c, NoCall)
    /\ UNCHANGED <<list, pred, args, result, gen>>

StepLists ==
    Lists1
        \cup {test_in_circle_lists[n] :
                n \in {1} \cup ((Len(test_in_circle_lists) - StepCat + 1)..Len(test_in_circle_lists))}
        \cup {test_in_sphere_lists[n] :
                n \in {1} \cup ((Len(test_in_sphere_lists) - StepCat + 1)..Len(test_in_sphere_lists))}

InitSteps ==
    /\ list \in StepLists
    /\ pred = "none"
    /\ args = <<>>
    /\ result = FALSE
    /\ calls = <<NoCall>>
    /\ gen = NoGen

NextSteps ==
    \/ \E c \in DOMAIN calls : Enter(c)
    \/ \E c \in DOMAIN calls : Nest(c)
    \/ \E c \in DOMAIN calls : Sort(c)
    \/ \E c \in DOMAIN calls : Fetch(c)
    \/ \E c \in DOMAIN calls : Test(c)
    \/ \E c \in DOMAIN calls : TieBreak(c)
    \/ \E c \in DOMAIN calls : Compare(c)
    \/ \E c \in DOMAIN calls : Leave(c)
    \/ \E c \in DOMAIN calls : Finish(c)
    \/ \E c \in DOMAIN calls : Release(c)

SpecSteps == InitSteps /\ [][NextSteps]_vars

-----------------------------------------------------------------------------
(* Concurrent calls on one list: NumCalls threads, each calling the        *)
(* predicates on the first indices in ascending or descending order.       *)

test_orient_1d_list == << <<0>>, <<0>> >>

ConcLists ==
    {test_orient_1d_list, test_orient_2d_lists[Len(test_orient_2d_lists)],
     test_in_circle_lists[2], test_in_sphere_lists[2]}

ConcTuples(n) == {[a \in 1..n |-> a - 1], [a \in 1..n |-> n - a]}

EnterConc(c) ==
    /\ calls[c].status = "idle"
    /\ \E p \in Preds :
          /\ DimOf(p) = Dim(list) /\ ArityOf(p) <= Len(list)
          /\ \E t \in ConcTuples(ArityOf(p)) : Begin(c, p, t)

InitConc ==
    /\ list \in ConcLists
    /\ pred = "none"
    /\ args = <<>>
    /\ result = FALSE
    /\ calls = [c \in 1..NumCalls |-> NoCall]
    /\ gen = NoGen

NextConc ==
    \/ \E c \in DOMAIN calls : EnterConc(c)
    \/ \E c \in DOMAIN calls : Nest(c)
    \/ \E c \in DOMAIN calls : Sort(c)
    \/ \E c \in DOMAIN calls : Fetch(c)
    \/ \E c \in DOMAIN calls : Test(c)
    \/ \E c \in DOMAIN calls : TieBreak(c)
    \/ \E c \in DOMAIN calls : Compare(c)
    \/ \E c \in DOMAIN calls : Leave(c)
    \/ \E c \in DOMAIN calls : Finish(c)
    \/ \E c \in DOMAIN calls : Release(c)

SpecConc == InitConc /\ [][NextConc]_vars

-----------------------------------------------------------------------------
(* Vocabulary of the properties.                                           *)

\* The predicate named p on the list l and the index tuple t.
Eval(p, l, t) ==
    CASE p = "orient_1d" -> orient_1d(l, t[1], t[2])
      [] p = "orient_2d" -> orient_2d(l, t[1], t[2], t[3])
      [] p = "orient_3d" -> orient_3d(l, t[1], t[2], t[3], t[4])
      [] p = "in_circle" -> in_circle(l, t[1], t[2], t[3], t[4])
      [] p = "in_sphere" -> in_sphere(l, t[1], t[2], t[3], t[4], t[5])

\* The permutations of 1..n, n <= 4.
Perms == [n \in 1..4 |-> {q \in [1..n -> 1..n] : Distinct(q)}]

\* t with its first Len(q) entries rearranged by q, the others in place.
Permuted(t, q) == [a \in 1..Len(t) |-> IF a <= Len(q) THEN t[q[a]] ELSE t[a]]

\* t with the entries at positions a and b exchanged.
Swapped(t, a, b) == [t EXCEPT ![a] = t[b], ![b] = t[a]]

\* The number of inversions of t is odd.
InvOdd(t) ==
    Cardinality({ab \in (1..Len(t)) \X (1..Len(t)) :
                     ab[1] < ab[2] /\ t[ab[1]] > t[ab[2]]}) % 2 = 1

\* The first n entries of t ascend.
Ascending(t, n) == \A a \in 1..(n - 1) : t[a] < t[a + 1]

IsOrient == pred \in {"orient_2d", "orient_3d"}
IsInSphere == pred \in {"in_circle", "in_sphere"}

\* All points of the list coincide.
AllEqual(l) == \A a \in 1..Len(l) : l[a] = l[1]

-----------------------------------------------------------------------------
(* C1: exchanging any two index arguments of orient_2d / orient_3d         *)
(* negates the result; and the result on a permutation q of the ascending  *)
(* order is the result on the ascending order XOR (q is odd).  Degenerate  *)
(* lists included.                                                         *)

C1_SwapNegates ==
    IsOrient =>
        /\ \A a, b \in 1..Len(args) :
              a < b => Eval(pred, list, Swapped(args, a, b)) = ~result
        /\ Ascending(args, Len(args)) =>
              \A q \in Perms[Len(args)] :
                  Eval(pred, list, Permuted(args, q)) = (result # InvOdd(q))

\* orient_3d was called on four coincident points in an odd order.
C1_Witness ==
    /\ pred = "orient_3d" /\ AllEqual(list)
    /\ args = <<1, 0, 2, 3>> /\ result = FALSE

-----------------------------------------------------------------------------
(* C2: orient_1d(i, j) is true iff coordinate(i) > coordinate(j), or the   *)
(* coordinates are equal and i < j; so for i # j exactly one of            *)
(* orient_1d(i, j), orient_1d(j, i) is true, and with equal coordinates    *)
(* the call with the lower index first is the true one.                    *)

Coord1(l, i) == l[i + 1][1]

C2_Orient1d ==
    pred = "orient_1d" =>
        LET i == args[1]
            j == args[2]
        IN  /\ result = (Coord1(list, i) > Coord1(list, j)
                           \/ (Coord1(list, i) = Coord1(list, j) /\ i < j))
            /\ i # j => orient_1d(list, j, i) = ~result
            /\ (Coord1(list, i) = Coord1(list, j) /\ i # j) => (result = (i < j))

\* orient_1d was called on two equal coordinates, lower index first.
C2_Witness ==
    /\ pred = "orient_1d" /\ args = <<0, 2>>
    /\ Coord1(list, 0) = Coord1(list, 2) /\ result = TRUE

-----------------------------------------------------------------------------
(* The perturbed orientation determinant of the crate documentation        *)
(* (lines 6-9): coordinate j of point i is perturbed by eps^(2^(d*i - j)), *)
(* d more than the number of dimensions.  Expanding                        *)
(*     det | p(t[a]) + eps-row(t[a])   1 |,   rows a in argument order,    *)
(* by multilinearity gives one monomial for every partial matching S of    *)
(* rows to coordinate columns:                                             *)
(*     (-1)^(sum of a + c over S) * sign(S) * minor(rows, cols not in S)   *)
(*         * product over S of eps^(2^(d*t[a] - (c - 1)))                  *)
(* Exponents are sums of distinct powers of two, so distinct matchings     *)
(* give distinct monomials, and a smaller exponent is a larger monomial.   *)

\* A matching maps each row to the coordinate column it selects, or to 0.
Matchings ==
    [dim \in 2..3 |->
        {m \in [1..(dim + 1) -> 0..dim] :
            \A a, b \in 1..(dim + 1) : (a # b /\ m[a] # 0) => m[a] # m[b]}]

\* The exponent of the monomial of m, scaled by 2^(dim - 1) to an integer,
\* with d = dim + 1.
RECURSIVE EpsExponent(_, _, _)
EpsExponent(m, t, a) ==
    IF a > Len(t) THEN 0
    ELSE (IF m[a] = 0 THEN 0
          ELSE 2 ^ (Len(t) * t[a] - (m[a] - 1) + (Len(t) - 2)))
         + EpsExponent(m, t, a + 1)

RemoveAt(seq, k) == SubSeq(seq, 1, k - 1) \o SubSeq(seq, k + 1, Len(seq))

\* Determinant of the rows and columns of M listed, by expansion along the
\* first listed row.
RECURSIVE LaplaceDet(_, _, _)
RECURSIVE LaplaceSum(_, _, _, _)
LaplaceDet(M, rows, cols) ==
    IF rows = <<>> THEN 1 ELSE LaplaceSum(M, rows, cols, 1)
LaplaceSum(M, rows, cols, k) ==
    IF k > Len(cols) THEN 0
    ELSE (IF k % 2 = 1 THEN 1 ELSE -1) * M[rows[1]][cols[k]]
             * LaplaceDet(M, Tail(rows), RemoveAt(cols, k))
         + LaplaceSum(M, rows, cols, k + 1)

\* The matrix | p 1 | of the points at t, rows in argument order.
OrientMatrix(l, t) == [a \in 1..Len(t) |-> Append(l[t[a] + 1], 1)]

Upto(n) == [a \in 1..n |-> a]

\* The coefficient of the monomial of the matching m.
Coefficient(M, m) ==
    LET n == Len(M)
        rows == SelectSeq(Upto(n), LAMBDA a : m[a] = 0)
        cols == SelectSeq(Upto(n), LAMBDA c : \A a \in 1..n : m[a] # c)
        moved == Cardinality({a \in 1..n : m[a] # 0 /\ (a + m[a]) % 2 = 1})
        crossed == Cardinality({ab \in (1..n) \X (1..n) :
                       /\ ab[1] < ab[2] /\ m[ab[1]] # 0 /\ m[ab[2]] # 0
                       /\ m[ab[1]] > m[ab[2]]})
    IN  (IF (moved + crossed) % 2 = 0 THEN 1 ELSE -1) * LaplaceDet(M, rows, cols)

\* The coefficient of the largest monomial below eps^cur (exponent above
\* cur) whose coefficient is not zero; mons pairs every matching with its
\* exponent.  The matchings that select a column in all rows but one have
\* the minor | 1 |, so the search ends.
RECURSIVE FirstNonzeroCoefficient(_, _, _)
FirstNonzeroCoefficient(M, mons, cur) ==
    LET nxt == CHOOSE x \in mons :
                   /\ x[1] > cur
                   /\ \A o \in mons : o[1] > cur => x[1] <= o[1]
        coef == Coefficient(M, nxt[2])
    IN  IF coef # 0 THEN coef ELSE FirstNonzeroCoefficient(M, mons, nxt[1])

\* The perturbed determinant of the points at t, rows in argument order, is
\* positive for all sufficiently small eps > 0.
PerturbedPositive(l, t) ==
    FirstNonzeroCoefficient(OrientMatrix(l, t),
                            {<<EpsExponent(m, t, 1), m>> : m \in Matchings[Len(t) - 1]},
                            -1) > 0

-----------------------------------------------------------------------------
(* C3: for pairwise distinct indices orient_2d and orient_3d return true   *)
(* iff the determinant of the symbolically perturbed points, in argument   *)
(* order, is positive for all sufficiently small eps > 0, i.e. iff the     *)
(* first nonzero coefficient of its eps-expansion is positive.             *)

C3_PerturbedDeterminant ==
    IsOrient => result = PerturbedPositive(list, args)

\* Collinear points of 3-space: the result is decided by the perturbation.
C3_Witness ==
    /\ pred = "orient_3d"
    /\ list = << <<0, 0, 0>>, <<1, 1, 1>>, <<3, 4, 5>>, <<2, 3, 4>> >>
    /\ args = <<2, 0, 3, 1>>
    /\ LaplaceDet(OrientMatrix(list, args), Upto(4), Upto(4)) = 0

-----------------------------------------------------------------------------
(* Vocabulary of the in-circle / in-sphere properties.                     *)

\* The index arguments but the last.
FirstArgs(t) == SubSeq(t, 1, Len(t) - 1)

\* t with its last two entries exchanged.
LastSwapped(t) == Swapped(t, Len(t) - 1, Len(t))

\* The orientation predicate in_circle / in_sphere calls.
NestedOrient(p) == IF p = "in_circle" THEN "orient_2d" ELSE "orient_3d"

\* Some two points of the list coincide.
SomeEqual(l) == \E a, b \in 1..Len(l) : a # b /\ l[a] = l[b]

-----------------------------------------------------------------------------
(* C4: in_circle returns the same boolean for all 6 orderings of its first *)
(* three index arguments, in_sphere for all 24 orderings of its first      *)
(* four, the last argument fixed; on general and on degenerate lists.      *)
(* Every ordering is compared with the ascending one.                      *)

C4_FirstArgsOrderFree ==
    (IsInSphere /\ Ascending(args, Len(args) - 1)) =>
        \A q \in Perms[Len(args) - 1] :
            Eval(pred, list, Permuted(args, q)) = result

\* in_sphere was called on a list with coincident points, the last
\* argument not the largest index.
C4_Witness ==
    /\ pred = "in_sphere" /\ SomeEqual(list)
    /\ args = <<0, 1, 3, 4, 2>> /\ result = FALSE

-----------------------------------------------------------------------------
(* C5, as stated: every odd permutation of the first k-1 index arguments   *)
(* of in_circle / in_sphere flips the returned boolean.                    *)

C5_OddPermutationFlips ==
    IsInSphere =>
        \A a, b \in 1..(Len(args) - 1) :
            a < b => Eval(pred, list, Swapped(args, a, b)) = ~result

(* C5, amended: a permutation q of the first k-1 index arguments leaves    *)
(* the returned boolean unchanged; an odd q flips the nested orientation   *)
(* of those arguments and the parity of the sort, and the two cancel.      *)

C5_OddPermutationCancels ==
    (IsInSphere /\ Ascending(args, Len(args) - 1)) =>
        \A q \in Perms[Len(args) - 1] :
            LET u == Permuted(args, q)
            IN  /\ Eval(NestedOrient(pred), list, FirstArgs(u))
                     = (Eval(NestedOrient(pred), list, FirstArgs(args)) # InvOdd(q))
                /\ InvOdd(u) = (InvOdd(args) # InvOdd(q))
                /\ Eval(pred, list, u) = result

\* in_circle was called with its first three indices ascending, and is
\* true.
C5_Witness ==
    /\ pred = "in_circle" /\ args = <<1, 2, 3, 0>> /\ result = TRUE

-----------------------------------------------------------------------------
(* C6, as stated: in_sphere(i,j,k,l,m) XOR in_sphere(i,j,k,m,l) equals     *)
(* orient_3d(i,j,k,l) XOR orient_3d(i,j,k,m); likewise in_circle.          *)

C6_SwapLastXorOrient ==
    IsInSphere =>
        (result # Eval(pred, list, LastSwapped(args)))
            = (Eval(NestedOrient(pred), list, FirstArgs(args))
                 # Eval(NestedOrient(pred), list, FirstArgs(LastSwapped(args))))

Cocircular == << <<1, 0>>, <<3, 1>>, <<2, 3>>, <<0, 2>> >>

(* C6, amended: in_sphere(i,j,k,l,m) XOR in_sphere(i,j,k,m,l) equals       *)
(* NOT (orient_3d(i,j,k,l) XOR orient_3d(i,j,k,m)); likewise in_circle;    *)
(* on the cocircular points (1,0),(3,1),(2,3),(0,2), in_circle(0,1,2,3)    *)
(* is true and (in_circle(0,1,2,3) == !in_circle(0,1,3,2)) equals          *)
(* (orient_2d(0,1,3) == orient_2d(0,1,2)).                                 *)

C6_SwapLastXorSameOrient ==
    /\ IsInSphere =>
          (result # Eval(pred, list, LastSwapped(args)))
              = ~(Eval(NestedOrient(pred), list, FirstArgs(args))
                    # Eval(NestedOrient(pred), list, FirstArgs(LastSwapped(args))))
    /\ (pred = "in_circle" /\ list = Cocircular /\ args = <<0, 1, 2, 3>>) =>
          /\ result = TRUE
          /\ (result = ~in_circle(list, 0, 1, 3, 2))
                = (orient_2d(list, 0, 1, 3) = orient_2d(list, 0, 1, 2))

\* in_circle(0,1,2,3) on the cocircular points.
C6_Witness ==
    /\ pred = "in_circle" /\ list = Cocircular /\ args = <<0, 1, 2, 3>>
    /\ result = TRUE

-----------------------------------------------------------------------------
(* C7: exchanging the last two index arguments of in_circle / in_sphere    *)
(* leaves the result unchanged exactly when the two orientations differ:   *)
(*   (in_circle(i,j,k,l) == in_circle(i,j,l,k))                            *)
(*       == (orient_2d(i,j,l) != orient_2d(i,j,k))                         *)

C7_SwapLastKeepsIffOrientDiffers ==
    IsInSphere =>
        LET u == LastSwapped(args)
        IN  (result = Eval(pred, list, u))
                = (Eval(NestedOrient(pred), list, FirstArgs(u))
                     # Eval(NestedOrient(pred), list, FirstArgs(args)))

\* The two orientations differ, and exchanging the last two arguments of
\* in_sphere leaves the result.
C7_Witness ==
    /\ pred = "in_sphere"
    /\ orient_3d(list, args[1], args[2], args[3], args[4])
         # orient_3d(list, args[1], args[2], args[3], args[5])
    /\ result = TRUE
    /\ in_sphere(list, args[1], args[2], args[3], args[5], args[4])

-----------------------------------------------------------------------------
(* Exact geometry of non-degenerate input.                                 *)

Sub(p, q) == [c \in 1..Len(p) |-> p[c] - q[c]]

Dot(p, q) ==
    IF Len(p) = 2 THEN p[1] * q[1] + p[2] * q[2]
    ELSE p[1] * q[1] + p[2] * q[2] + p[3] * q[3]

Cross2(p, q) == p[1] * q[2] - p[2] * q[1]

Cross3(p, q) ==
    <<p[2] * q[3] - p[3] * q[2], p[3] * q[1] - p[1] * q[3], p[1] * q[2] - p[2] * q[1]>>

Scale(k, p) == [c \in 1..Len(p) |-> k * p[c]]

Plus(p, q) == [c \in 1..Len(p) |-> p[c] + q[c]]

\* a, b, c make a left turn: c is to the left of the ray from a through b.
LeftTurn(a, b, c) == Cross2(Sub(b, a), Sub(c, a)) > 0

\* Twice the signed area of a, b, c; zero iff collinear.
Area2(a, b, c) == Cross2(Sub(b, a), Sub(c, a))

\* Six times the signed volume of a, b, c, e; zero iff coplanar.
Volume6(a, b, c, e) == Dot(Sub(b, a), Cross3(Sub(c, a), Sub(e, a)))

\* The centre of the circle through a, b, c is a + CircleU / (2 * Area2).
CircleU(a, b, c) ==
    LET B == Sub(b, a)
        C == Sub(c, a)
    IN  <<Dot(B, B) * C[2] - Dot(C, C) * B[2], B[1] * Dot(C, C) - C[1] * Dot(B, B)>>

\* The centre of the sphere through a, b, c, e is a + SphereU / (2 * Volume6).
SphereU(a, b, c, e) ==
    LET B == Sub(b, a)
        C == Sub(c, a)
        E == Sub(e, a)
    IN  Plus(Scale(Dot(B, B), Cross3(C, E)),
             Plus(Scale(Dot(C, C), Cross3(E, B)), Scale(Dot(E, E), Cross3(B, C))))

\* (|q - centre|^2 - radius^2) * vol^2, for the centre a + U / (2 * vol):
\* negative inside, zero on, positive outside the circle or sphere.
Power(a, U, vol, q) ==
    LET Q == Sub(q, a)
    IN  Dot(Q, Q) * vol * vol - Dot(Q, U) * vol

CirclePower(l, t) ==
    LET a == l[t[1] + 1]
        b == l[t[2] + 1]
        c == l[t[3] + 1]
    IN  Power(a, CircleU(a, b, c), Area2(a, b, c), l[t[4] + 1])

SpherePower(l, t) ==
    LET a == l[t[1] + 1]
        b == l[t[2] + 1]
        c == l[t[3] + 1]
        e == l[t[4] + 1]
    IN  Power(a, SphereU(a, b, c, e), Volume6(a, b, c, e), l[t[5] + 1])

\* The volume of the first k-1 points, in argument order.
DefiningVolume(l, t) ==
    IF Len(t) = 4 THEN Area2(l[t[1] + 1], l[t[2] + 1], l[t[3] + 1])
    ELSE Volume6(l[t[1] + 1], l[t[2] + 1], l[t[3] + 1], l[t[4] + 1])

-----------------------------------------------------------------------------
(* C8: if the exact orientation determinant | p 1 | of the points in       *)
(* argument order is nonzero, orient_2d and orient_3d return (determinant  *)
(* > 0), for every ordering of the indices; for orient_2d this is: the     *)
(* three points make a left turn in argument order.                        *)

C8_NonDegenerateOrient ==
    IsOrient =>
        LET det == LaplaceDet(OrientMatrix(list, args), Upto(Len(args)), Upto(Len(args)))
        IN  det # 0 =>
                /\ result = (det > 0)
                /\ (pred = "orient_2d") =>
                      result = LeftTurn(list[args[1] + 1], list[args[2] + 1],
                                        list[args[3] + 1])

\* orient_3d was called on non-coplanar points, the indices in an odd
\* order, and is true.
C8_Witness ==
    /\ pred = "orient_3d" /\ InvOdd(args) /\ result = TRUE
    /\ Volume6(list[args[1] + 1], list[args[2] + 1], list[args[3] + 1],
               list[args[4] + 1]) # 0

-----------------------------------------------------------------------------
(* C9: if the first k-1 points are not collinear (coplanar) and the last   *)
(* is not on their circle (sphere), in_circle (in_sphere) is true iff the  *)
(* last point lies strictly inside that circle (sphere), whichever the     *)
(* orientation of the first k-1 points.                                    *)

C9_TrueInsideness ==
    /\ (/\ pred = "in_circle"
        /\ DefiningVolume(list, args) # 0
        /\ CirclePower(list, args) # 0) =>
            result = (CirclePower(list, args) < 0)
    /\ (/\ pred = "in_sphere"
        /\ DefiningVolume(list, args) # 0
        /\ SpherePower(list, args) # 0) =>
            result = (SpherePower(list, args) < 0)

\* in_sphere was called with the first four points negatively oriented
\* and the fifth strictly inside their sphere.
C9_Witness ==
    /\ pred = "in_sphere" /\ result = TRUE
    /\ DefiningVolume(list, args) < 0 /\ SpherePower(list, args) < 0

-----------------------------------------------------------------------------
(* C10: a predicate returns the same boolean whenever it is called with    *)
(* the same list, indexer and indices, and the boolean does not change     *)
(* when a list entry whose index is not among the arguments is replaced    *)
(* by any other point.                                                     *)

PointsOfDim(d) == IF d = 1 THEN Points1 ELSE IF d = 2 THEN Points2 ELSE Points3

C10_DependsOnArgsOnly ==
    ~Idle =>
        /\ Eval(pred, list, args) = result
        /\ \A n \in Indices(list) \ Range(args) :
              \A p \in PointsOfDim(Dim(list)) :
                  Eval(pred, [list EXCEPT ![n + 1] = p], args) = result

\* in_sphere was called on a list of six points, the first not among the
\* arguments, and is true.
C10_Witness ==
    /\ pred = "in_sphere" /\ Len(list) = Arity_in_sphere + 1
    /\ args = <<5, 1, 2, 3, 4>> /\ result = TRUE

-----------------------------------------------------------------------------
(* Vocabulary of the stepwise properties.                                  *)

Done(c) == calls[c].status = "done"

\* The predicate call c is, or was, executing, and its index arguments.
PredOf(c) == calls[c].stack[1].fn
ArgsOf(c) == calls[c].stack[1].args

\* Steps of one activation of p: the sort, the fetches, the cases, the
\* final expression and the return.
OwnSteps(p) == 1 + ArityOf(p) + Len(CasesOf(p)) + 1 + 1

\* Steps of a call of p: the nested call and its return included.
CallSteps(p) == IF Nests(p) THEN 1 + OwnSteps(NestedOf(p)) + OwnSteps(p) ELSE OwnSteps(p)

\* Call c has a next step: its activation is at a statement, and an indexer
\* invocation is on an index of the list.
CanStep(c) ==
    /\ Top(c).pc \in {"nest", "sort", "fetch", "case", "compare", "ret"}
    /\ Top(c).pc = "fetch" =>
          /\ Len(Top(c).pts) < Len(Top(c).arr)
          /\ FetchIndex(Top(c)) \in Indices(list)
    /\ Top(c).pc \in {"case", "compare", "ret"} => Len(Top(c).pts) = Len(Top(c).arr)

\* The number of sign tests the claim allows each cascade.
MaxTests(p) ==
    CASE p = "orient_1d" -> 0
      [] p = "orient_2d" -> 4
      [] p = "orient_3d" -> 13
      [] p = "in_circle" -> 11
      [] p = "in_sphere" -> 48

-----------------------------------------------------------------------------
(* C11: for every tuple of in-range indices, distinct or not, a predicate  *)
(* call always has a next step until it returns a boolean, returns within  *)
(* a bounded number of steps, and makes at most 4 (orient_2d), 13          *)
(* (orient_3d), 11 (in_circle) and 48 (in_sphere) sign tests in its own    *)
(* cascade, in_circle and in_sphere besides those of one nested call.      *)

C11_BoundedTests ==
    \A c \in DOMAIN calls :
        /\ Running(c) =>
              /\ CanStep(c)
              /\ calls[c].steps < CallSteps(PredOf(c))
              /\ \A q \in 1..Len(calls[c].stack) :
                    calls[c].stack[q].tests <= MaxTests(calls[c].stack[q].fn)
        /\ Done(c) =>
              /\ calls[c].result \in BOOLEAN
              /\ calls[c].steps <= CallSteps(PredOf(c))
              /\ Len(calls[c].counts) = IF Nests(PredOf(c)) THEN 2 ELSE 1
              /\ calls[c].counts[Len(calls[c].counts)] <= MaxTests(PredOf(c))
              /\ Nests(PredOf(c)) => calls[c].counts[1] <= MaxTests(NestedOf(PredOf(c)))

\* in_sphere returned after all 13 tests of the nested orient_3d and all 48
\* of its own, on repeated indices.
C11_Witness ==
    \E c \in DOMAIN calls :
        /\ Done(c) /\ PredOf(c) = "in_sphere" /\ ~Distinct(ArgsOf(c))
        /\ calls[c].counts = <<13, 48>>

-----------------------------------------------------------------------------
(* C12, as stated: during one predicate call with k index arguments the    *)
(* indexer is invoked at most k times, exactly once per index.             *)

C12_IndexerAtMostArity ==
    \A c \in DOMAIN calls :
        /\ calls[c].status # "idle" => Len(calls[c].fetched) <= ArityOf(PredOf(c))
        /\ Done(c) => \A i \in Range(ArgsOf(c)) :
              Cardinality({q \in 1..Len(calls[c].fetched) : calls[c].fetched[q] = i})
                  = Cardinality({q \in 1..Len(ArgsOf(c)) : ArgsOf(c)[q] = i})

(* C12, amended: each predicate body invokes the indexer exactly once per  *)
(* index argument, in sorted order (orient_1d: in argument order); the     *)
(* orientation predicates thus invoke it k times, and in_circle and        *)
(* in_sphere 2k - 1 times: k - 1 times in the nested orient_2d / orient_3d *)
(* call on their first k - 1 arguments, then k times in their own body.    *)

C12_IndexerOncePerIndexPerBody ==
    \A c \in DOMAIN calls :
        Done(c) =>
            LET p == PredOf(c)
                t == ArgsOf(c)
                own == IF p = "orient_1d" THEN t ELSE sorted_fn(t)[1]
            IN  calls[c].fetched
                    = IF Nests(p) THEN sorted_fn(FirstArgsOf(t))[1] \o own ELSE own

\* in_circle returned after seven invocations of the indexer.
C12_Witness ==
    \E c \in DOMAIN calls :
        /\ Done(c) /\ PredOf(c) = "in_circle" /\ Distinct(ArgsOf(c))
        /\ Len(calls[c].fetched) = 2 * Arity_in_circle - 1

-----------------------------------------------------------------------------
(* C13: under every interleaving of the steps of concurrent predicate      *)
(* calls on one list, each call returns the boolean it returns when run    *)
(* alone, every point it uses is the list's, and the list never changes.   *)

C13_Reentrant ==
    /\ [](\A c \in DOMAIN calls :
             /\ Running(c) =>
                   \A q \in 1..Len(Top(c).pts) : Top(c).pts[q] = list[Top(c).arr[q] + 1]
             /\ Done(c) => calls[c].result = Eval(PredOf(c), list, ArgsOf(c)))
    /\ [][list' = list]_vars

\* Two calls of in_circle on the same list, in different argument order,
\* one returned while the other is in its cascade.
C13_Witness ==
    /\ Done(1) /\ PredOf(1) = "in_circle" /\ ArgsOf(1) = <<0, 1, 2, 3>>
    /\ Running(2) /\ PredOf(2) = "in_circle" /\ ArgsOf(2) = <<3, 2, 1, 0>>
    /\ Top(2).pc = "case" /\ Len(calls[2].stack) = 1

-----------------------------------------------------------------------------
(* The four predicates that run a cascade, called on the lists of the      *)
(* plane and of space.                                                     *)

InitCascade ==
    /\ list \in Lists2 \cup Lists3
    /\ pred = "none"
    /\ args = <<>>
    /\ result = FALSE
    /\ calls = <<>>
    /\ gen = NoGen

NextCascade ==
    \/ Call_orient_2d
    \/ Call_orient_3d
    \/ Call_in_circle
    \/ Call_in_sphere
    \/ Return

SpecCascade == InitCascade /\ [][NextCascade]_vars

-----------------------------------------------------------------------------
(* Vocabulary of the cascade properties.                                   *)

IsCascade == pred \in {"orient_2d", "orient_3d", "in_circle", "in_sphere"}

\* The points of l at the sorted indices of t, extended: pi, pj, ...
SortedPoints(l, t) ==
    LET arr == sorted_fn(t)[1]
        p(q) == Ext(index_fn(l, arr[q]))
    IN  IF Len(t) = 3 THEN <<p(1), p(2), p(3)>>
        ELSE IF Len(t) = 4 THEN <<p(1), p(2), p(3), p(4)>>
        ELSE <<p(1), p(2), p(3), p(4), p(5)>>

\* The case that decides p on l and t: its place in the cascade of p, or 0
\* when every case is zero and the final `!odd` decides.
Decider(p, l, t) == FirstNonzero(CasesOf(p), 1, SortedPoints(l, t))[1]

\* The points of l at the indices t are pairwise distinct.
DistinctPoints(l, t) == \A a, b \in 1..Len(t) : a # b => l[t[a] + 1] # l[t[b] + 1]

-----------------------------------------------------------------------------
(* C14, as stated: orient_3d on the collinear points (0,0,0), (1,1,1),     *)
(* (2,2,2), (3,3,3) with the indices 0, 1, 2, 3 returns true.              *)

C14_CollinearTrue ==
    (pred = "orient_3d" /\ list = Collinear3 /\ args = <<0, 1, 2, 3>>) => result = TRUE

(* C14, amended: orient_3d on the collinear points (0,0,0), (1,1,1),       *)
(* (2,2,2), (3,3,3) with the indices 0, 1, 2, 3 returns false: the first   *)
(* five determinants are zero and the sixth case finds pk.x < pl.x.        *)

C14_CollinearFalse ==
    (pred = "orient_3d" /\ list = Collinear3 /\ args = <<0, 1, 2, 3>>) =>
        /\ result = FALSE
        /\ Decider(pred, list, args) = 6

\* orient_3d(0, 1, 2, 3) on the collinear points.
C14_Witness ==
    pred = "orient_3d" /\ list = Collinear3 /\ args = <<0, 1, 2, 3>> /\ result = FALSE

-----------------------------------------------------------------------------
(* C15, as stated: for pairwise distinct indices no cascade falls through  *)
(* to the final `!odd`.                                                    *)

C15_NeverFallsThrough ==
    IsCascade => Decider(pred, list, args) # 0

(* C15, amended: for pairwise distinct indices at pairwise distinct points *)
(* no cascade falls through; the final `!odd` is executed only when two of *)
(* the points coincide.                                                    *)

C15_DistinctPointsNeverFallThrough ==
    (IsCascade /\ DistinctPoints(list, args)) => Decider(pred, list, args) # 0

\* in_circle on four distinct points, degenerate enough to pass the first
\* three cases, was decided by a later one.
C15_Witness ==
    /\ pred = "in_circle" /\ DistinctPoints(list, args)
    /\ Decider(pred, list, args) > 3

-----------------------------------------------------------------------------
(* The sorting functions called on their own, on every array of indices    *)
(* up to MaxIndex.                                                         *)

MaxIndex == 4

Call_sorted_3 ==
    /\ Idle
    /\ \E arr \in [1..3 -> 0..MaxIndex] :
          /\ pred' = "sorted_3"
          /\ args' = arr
          /\ result' = sorted_3(arr)
    /\ UNCHANGED <<list, calls, gen>>

Call_sorted_4 ==
    /\ Idle
    /\ \E arr \in [1..4 -> 0..MaxIndex] :
          /\ pred' = "sorted_4"
          /\ args' = arr
          /\ result' = sorted_4(arr)
    /\ UNCHANGED <<list, calls, gen>>

Call_sorted_5 ==
    /\ Idle
    /\ \E arr \in [1..5 -> 0..MaxIndex] :
          /\ pred' = "sorted_5"
          /\ args' = arr
          /\ result' = sorted_5(arr)
    /\ UNCHANGED <<list, calls, gen>>

InitSort ==
    /\ list = <<>>
    /\ pred = "none"
    /\ args = <<>>
    /\ result = FALSE
    /\ calls = <<>>
    /\ gen = NoGen

NextSort ==
    \/ Call_sorted_3
    \/ Call_sorted_4
    \/ Call_sorted_5
    \/ Return

SpecSort == InitSort /\ [][NextSort]_vars

IsSorted == pred \in {"sorted_3", "sorted_4", "sorted_5"}

\* The number of places of t that hold v.
Count(t, v) == Cardinality({a \in 1..Len(t) : t[a] = v})

\* The number of pairs of places of t that are out of order.
Inversions(t) ==
    Cardinality({ab \in (1..Len(t)) \X (1..Len(t)) :
                     ab[1] < ab[2] /\ t[ab[1]] > t[ab[2]]})

\* q is a permutation of 1..Len(t) that puts t in the order of s.
Sorts(q, t, s) == Distinct(q) /\ \A a \in 1..Len(t) : s[a] = t[q[a]]

\* The parity of the permutation q: the parity of its inversions.
OddPermutation(q) == Inversions(q) % 2 = 1

-----------------------------------------------------------------------------
(* C17: sorted_3, sorted_4 and sorted_5 return the elements of the input   *)
(* array in ascending order, a permutation of the input, and a flag that   *)
(* is true iff the number of inversions of the input is odd; for distinct  *)
(* elements that is iff the permutation that sorts the input is odd.       *)

C17_SortedWithParity ==
    IsSorted =>
        /\ Len(result[1]) = Len(args)
        /\ \A a \in 1..(Len(args) - 1) : result[1][a] <= result[1][a + 1]
        /\ \A v \in 0..MaxIndex : Count(result[1], v) = Count(args, v)
        /\ result[2] = (Inversions(args) % 2 = 1)
        /\ Distinct(args) =>
              \A q \in [1..Len(args) -> 1..Len(args)] :
                  Sorts(q, args, result[1]) => result[2] = OddPermutation(q)

\* sorted_5 on an array with repeated elements and an odd number of
\* inversions, and so a true flag.
C17_Witness ==
    /\ pred = "sorted_5" /\ args = <<1, 0, 1, 0, 0>>
    /\ result = <<(<<0, 0, 0, 1, 1>>), TRUE>>

-----------------------------------------------------------------------------
\* The value of odd when the cascade of p starts on l and t: the parity of
\* the sort, and for in_circle and in_sphere that parity != flip.
OddOf(p, l, t) ==
    LET odd == sorted_fn(t)[2]
    IN  IF Nests(p) THEN odd # (~Eval(NestedOf(p), l, FirstArgsOf(t))) ELSE odd

\* The points of l at the indices t all coincide.
Coincident(l, t) == \A a \in 1..Len(t) : l[t[a] + 1] = l[t[1] + 1]

(* C18: when every case of the cascade is zero the result is `!odd`.       *)
(* orient_2d with sorted indices i < j < k reaches that return exactly     *)
(* when pj = pk and pi.x = pk.x; orient_3d, in_circle and in_sphere reach  *)
(* it when all their points coincide.  The result is then true on          *)
(* ascending index order, and for the orient predicates true iff the       *)
(* argument order is an even permutation of ascending order.               *)

C18_TieBreak ==
    (IsCascade /\ Distinct(args)) =>
        LET ps == SortedPoints(list, args)
            d  == Decider(pred, list, args)
        IN  /\ d = 0 => result = ~OddOf(pred, list, args)
            /\ pred = "orient_2d" =>
                  (d = 0 <=> (ps[2] = ps[3] /\ ps[1][1] = ps[3][1]))
            /\ Coincident(list, args) => d = 0
            /\ (d = 0 /\ Ascending(args, Len(args))) => result = TRUE
            /\ (d = 0 /\ IsOrient) => result = ~InvOdd(args)

\* orient_2d fell through on an odd permutation of ascending indices whose
\* points do not all coincide, and returned false.
C18_Witness ==
    /\ pred = "orient_2d" /\ Distinct(args) /\ InvOdd(args)
    /\ Decider(pred, list, args) = 0
    /\ ~Coincident(list, args)
    /\ result = FALSE

-----------------------------------------------------------------------------
(* The cases the source keeps as comments marked "Impossible", and the     *)
(* cascades with them at their commented positions.                        *)

\* // case!(3: pi, pk, pl, @ zy, != odd); Impossible
orient_3d_impossible == << <<<<1, 3, 4>>, <<3, 2>>>> >>

\* // case!(3: pi, pk, pl, @ xy m2, != odd); Impossible
\* // case!(2: pk, pl, @ m2, != odd); Impossible
\* // case!(3: pi, pk, pl, @ zy, != odd); Impossible
\* (of the lifted points of the plane: z is the magnitude column)
in_circle_impossible ==
    << <<<<1, 3, 4>>, <<1, MagCol>>>>,
       <<<<3, 4>>, <<MagCol>>>>,
       <<<<1, 3, 4>>, <<MagCol, 2>>>> >>

\* // case!(3: pi, pk, pm, @ zy, != odd); Impossible
in_sphere_impossible == << <<<<1, 3, 5>>, <<3, 2>>>> >>

ImpossibleOf(p) ==
    CASE p = "orient_2d" -> <<>>
      [] p = "orient_3d" -> orient_3d_impossible
      [] p = "in_circle" -> in_circle_impossible
      [] p = "in_sphere" -> in_sphere_impossible

\* The place in the cascade of the coordinate comparison that the comments
\* follow: case!(2: pk, pl, @ z), case!(2: pl, pk, @ y), case!(2: pk, pm, @ z).
orient_3d_impossible_after == 9
in_circle_impossible_after == 7
in_sphere_impossible_after == 44

ImpossibleAfter(p) ==
    CASE p = "orient_2d" -> 0
      [] p = "orient_3d" -> orient_3d_impossible_after
      [] p = "in_circle" -> in_circle_impossible_after
      [] p = "in_sphere" -> in_sphere_impossible_after

InsertAfter(cases, n, extra) ==
    SubSeq(cases, 1, n) \o extra \o SubSeq(cases, n + 1, Len(cases))

\* The cascade of p with the commented cases in place.
AllCasesOf(p) == InsertAfter(CasesOf(p), ImpossibleAfter(p), ImpossibleOf(p))

\* Control passes case n of a cascade that case d decides: all cases up to
\* n are zero.
Passes(d, n) == d = 0 \/ d > n

(* C19: the cases commented out as "Impossible" are soundly omitted.       *)
(* Whenever control passes the coordinate comparison before them (line     *)
(* 308 of orient_3d, 363 of in_circle, 459 of in_sphere) the two points    *)
(* it compares are identical, so each omitted determinant is zero; and     *)
(* the cascade with the omitted cases at their commented positions         *)
(* returns the same boolean as the shipped cascade.                        *)

C19_ImpossibleOmitted ==
    (IsCascade /\ pred # "orient_2d") =>
        LET ps == SortedPoints(list, args)
            n  == ImpossibleAfter(pred)
            pq == CasesOf(pred)[n][1]
            d  == Decider(pred, list, args)
        IN  /\ Passes(d, n) =>
                  /\ ps[pq[1]] = ps[pq[2]]
                  /\ \A a \in 1..Len(ImpossibleOf(pred)) :
                         CaseVal(ImpossibleOf(pred)[a], ps) = 0
            /\ Cascade(AllCasesOf(pred), ps, OddOf(pred, list, args)) = result

\* in_circle passed line 363 on points that do not all coincide and was
\* decided by a later case.
C19_Witness ==
    /\ pred = "in_circle"
    /\ Decider(pred, list, args) > in_circle_impossible_after
    /\ ~Coincident(list, args)

-----------------------------------------------------------------------------
(* The cases of in_sphere whose labels the test catalogue marks            *)
(* impossible: the case at line 430 and the cases at lines 440-450.        *)

in_sphere_dead_single == 15
in_sphere_dead_first == 25
in_sphere_dead_last == 35

in_sphere_dead == {in_sphere_dead_single} \cup in_sphere_dead_first..in_sphere_dead_last

\* in_sphere_cases without the dead cases.
in_sphere_cases_pruned ==
    SubSeq(in_sphere_cases, 1, in_sphere_dead_single - 1)
        \o SubSeq(in_sphere_cases, in_sphere_dead_single + 1, in_sphere_dead_first - 1)
        \o SubSeq(in_sphere_cases, in_sphere_dead_last + 1, Len(in_sphere_cases))

(* C20: in in_sphere the cases whose labels the test catalogue marks       *)
(* impossible never decide.  Whenever control reaches line 440, pl and pm  *)
(* (the points at the two largest sorted indices) have the same x, y and   *)
(* z, so every determinant tested at lines 440-450 is zero; the case at    *)
(* line 430 is zero whenever it is reached; and in_sphere returns the same *)
(* boolean without these 12 cases.                                         *)

C20_DeadCases ==
    pred = "in_sphere" =>
        LET ps == SortedPoints(list, args)
            d  == Decider(pred, list, args)
        IN  /\ d \notin in_sphere_dead
            /\ Passes(d, in_sphere_dead_first - 1) =>
                  /\ ps[4][1] = ps[5][1] /\ ps[4][2] = ps[5][2] /\ ps[4][3] = ps[5][3]
                  /\ \A n \in in_sphere_dead_first..in_sphere_dead_last :
                         CaseVal(in_sphere_cases[n], ps) = 0
            /\ Passes(d, in_sphere_dead_single - 1) =>
                  CaseVal(in_sphere_cases[in_sphere_dead_single], ps) = 0
            /\ Cascade(in_sphere_cases_pruned, ps, OddOf(pred, list, args)) = result

\* in_sphere passed line 450 on points that do not all coincide and was
\* decided by a later case.
C20_Witness ==
    /\ pred = "in_sphere"
    /\ Decider(pred, list, args) > in_sphere_dead_last
    /\ ~Coincident(list, args)

-----------------------------------------------------------------------------
\* The predicates that have a cascade.
Cascades == {"orient_2d", "orient_3d", "in_circle", "in_sphere"}

\* The lists of the callers on which p can be called.
ListsOf(p) ==
    {l \in Lists2 \cup Lists3 : Dim(l) = DimOf(p) /\ Len(l) >= ArityOf(p)}

\* The cases that decide p on some list of the callers with pairwise
\* distinct ascending indices; 0 stands for the final `!odd`.
LiveCases ==
    [p \in Cascades |->
        UNION {{Decider(p, l, t) :
                   t \in {u \in Tuples(l, ArityOf(p)) : Ascending(u, Len(u))}} :
               l \in ListsOf(p)}]

(* C16, as stated: every case of every cascade is live: for each of        *)
(* orient_2d, orient_3d, in_circle and in_sphere, each case of its cascade *)
(* and its final `!odd` decides the result on some point list with         *)
(* pairwise distinct ascending indices.                                    *)

C16_EveryCaseLive ==
    IsCascade => \A n \in 0..Len(CasesOf(pred)) : n \in LiveCases[pred]

(* C16, amended: every case of every cascade, and its final `!odd`,        *)
(* decides the result on some point list with pairwise distinct ascending  *)
(* indices, except the 12 cases of in_sphere at lines 430 and 440-450,     *)
(* which decide on none.                                                   *)

C16_EveryCaseLiveButDead ==
    IsCascade =>
        \A n \in 0..Len(CasesOf(pred)) :
            n \in LiveCases[pred] <=> ~(pred = "in_sphere" /\ n \in in_sphere_dead)

\* in_sphere on ascending indices was decided by the last case of its
\* cascade.
C16_Witness ==
    /\ pred = "in_sphere" /\ Ascending(args, Len(args))
    /\ Decider(pred, list, args) = Len(in_sphere_cases)

-----------------------------------------------------------------------------
\* The elements of the set S of numbers in ascending order.
RECURSIVE AscendingOf(_)
AscendingOf(S) ==
    IF S = {} THEN <<>>
    ELSE LET m == CHOOSE x \in S : \A y \in S : x <= y
         IN  <<m>> \o AscendingOf(S \ {m})

\* The indices a call of p on the set S of index arguments passes to the
\* indexer when they are given in ascending order.
FetchesOfSet(p, S) ==
    IF Nests(p) THEN FirstArgsOf(AscendingOf(S)) \o AscendingOf(S) ELSE AscendingOf(S)

(* C21, as stated: in every predicate the index arguments are sorted       *)
(* before the first indexer invocation, so the sequence of indices passed  *)
(* to the indexer during one call depends only on the set of the index     *)
(* arguments, not on their order: orient_1d, in_circle and in_sphere with  *)
(* their nested orient call included.                                      *)

C21_FetchesDependOnSetOnly ==
    \A c \in DOMAIN calls :
        (Done(c) /\ Distinct(ArgsOf(c))) =>
            calls[c].fetched = FetchesOfSet(PredOf(c), Range(ArgsOf(c)))

(* C21, amended: orient_2d, orient_3d, in_circle and in_sphere each sort   *)
(* their index arguments before their own first indexer invocation, and    *)
(* orient_1d does not sort.  The sequence of indices passed to the indexer *)
(* during one call is: for orient_1d the two arguments as given; for       *)
(* orient_2d and orient_3d the set of the arguments in ascending order;    *)
(* for in_circle and in_sphere the set of the first k - 1 arguments in     *)
(* ascending order (the nested orient call) and then the set of all k      *)
(* arguments in ascending order, so that it depends on which argument is   *)
(* given last and on nothing else of the order.                            *)

C21_FetchesDependOnSetAndLast ==
    \A c \in DOMAIN calls :
        /\ \A d \in 1..Len(calls[c].stack) :
              LET a == calls[c].stack[d]
              IN  (a.fn # "orient_1d" /\ a.pts # <<>>) =>
                      /\ Range(a.arr) = Range(a.args)
                      /\ \A q \in 1..(Len(a.arr) - 1) : a.arr[q] <= a.arr[q + 1]
        /\ (Done(c) /\ Distinct(ArgsOf(c))) =>
              LET p == PredOf(c)
                  t == ArgsOf(c)
              IN  calls[c].fetched =
                      IF p = "orient_1d" THEN t
                      ELSE IF Nests(p)
                           THEN AscendingOf(Range(FirstArgsOf(t))) \o AscendingOf(Range(t))
                           ELSE AscendingOf(Range(t))

\* in_circle(3, 2, 1, 0) returned: the nested call fetched 1, 2, 3 and the
\* body 0, 1, 2, 3, unlike in_circle(0, 1, 2, 3).
C21_Witness ==
    \E c \in DOMAIN calls :
        /\ Done(c) /\ PredOf(c) = "in_circle" /\ ArgsOf(c) = <<3, 2, 1, 0>>
        /\ calls[c].fetched = <<1, 2, 3, 0, 1, 2, 3>>

-----------------------------------------------------------------------------
(* The symbolic generator (crate simplicity_derive).  Two variants of the  *)
(* crate are in the repository: src/simplicity_derive/src/lib.rs emits the *)
(* decision table as documentation ("doc"), and the packaged crate under   *)
(* src/simplicity_derive/target/package emits the body of the evaluator    *)
(* ("runtime").  Both share terms and term_sums; they differ in the        *)
(* elimination rules and in what is emitted for a surviving bucket.        *)
(* The variable gen is one expansion of generate_in_hypersphere; rows,     *)
(* columns and points are numbered from 0 as in the source.                *)

Variants == {"doc", "runtime"}

\* generate_in_hypersphere is invoked with 4 or 5 indexes: dim = len - 2
Dims == {2, 3}

None == <<>>

Determinant_new(rows, cols) == [rows |-> rows, cols |-> cols]

Term_new(const_mult, var_mult, det) ==
    [const_mult |-> const_mult, var_mult |-> var_mult, det |-> det]

RECURSIVE Pow3(_)
Pow3(n) == IF n = 0 THEN 1 ELSE 3 * Pow3(n - 1)

\* EFactor::new: the sum of 3^(dim*r + dim-1-c) over the listed positions
RECURSIVE EFactor_new(_, _)
EFactor_new(dim, coords) ==
    IF coords = <<>> THEN 0
    ELSE Pow3(dim * coords[1][1] + dim - 1 - coords[1][2])
            + EFactor_new(dim, Tail(coords))

\* (0..n) collected into a vector
RangeTo(n) == [a \in 1..(n + 1) |-> a - 1]

\* The biggest relevant epsilon-factor
big_e(dim) ==
    EFactor_new(dim, [a \in 1..(dim - 1) |-> <<a - 1, a - 1>>]
                       \o <<<<dim - 1, dim - 1>>, <<dim - 1, dim - 1>>, <<dim, dim - 1>>>>)

\* if (er + ec) % 2 == 1 { mult *= -1; }
RemovedSign(er, ec, mult) == IF (er + ec) % 2 = 1 THEN -mult ELSE mult

\* if factor <= big_e { terms.push((factor, term)) }
PushIf(dim, factor, term) ==
    IF factor <= big_e(dim) THEN <<<<factor, term>>>> ELSE <<>>

\* e_factors.iter().position(|[_, c]| *c == dim): 0 when there is none
RECURSIVE MagPosition(_, _, _)
MagPosition(e_factors, dim, k) ==
    IF k > Len(e_factors) THEN 0
    ELSE IF e_factors[k][2] = dim THEN k ELSE MagPosition(e_factors, dim, k + 1)

\* for j in 0..dim: the term of 2*coordinate and the term of the square
RECURSIVE MagTerms(_, _, _, _, _, _)
MagTerms(dim, j, mag_r, e_factors, mult, det) ==
    IF j >= dim THEN <<>>
    ELSE PushIf(dim, EFactor_new(dim, Append(e_factors, <<mag_r, j>>)),
                Term_new(mult * 2, <<mag_r, j>>, det))
         \o PushIf(dim, EFactor_new(dim, e_factors \o <<<<mag_r, j>>, <<mag_r, j>>>>),
                   Term_new(mult, None, det))
         \o MagTerms(dim, j + 1, mag_r, e_factors, mult, det)

\* The terms one visit of the loop pushes
Pushed(dim, mult, e_factors, det) ==
    LET p == MagPosition(e_factors, dim, 1)
    IN  IF p # 0
        THEN MagTerms(dim, 0, e_factors[p][1], RemoveAt(e_factors, p), mult, det)
        ELSE PushIf(dim, EFactor_new(dim, e_factors), Term_new(mult, None, det))

\* for n in remove[from..].iter_mut().step_by(2) { *n = row; }
SetRows(remove, from, row) ==
    [n \in DOMAIN remove |->
        IF n >= from /\ (n - from) % 2 = 0 THEN row ELSE remove[n]]

\* The block of the do-while: remove[j] += 1 and, on a row position still
\* in range, the copy of the row to the later row positions.
CounterBlock(dim, i, remove, j) ==
    LET r == [remove EXCEPT ![j] = remove[j] + 1]
    IN  IF j % 2 = 0 /\ r[j] <= dim - (i - 1) THEN SetRows(r, j + 2, r[j]) ELSE r

\* Mutant of CounterCarries: a column position carries at the bound of the
\* row positions.
CounterCarries_RowBound(dim, i, remove, j) ==
    remove[j] > dim - (i - 1) /\ j > 0

\* remove[j] > dim - if j % 2 == 0 {i - 1} else {j / 2} && j > 0
CounterCarries(dim, i, remove, j) ==
    remove[j] > dim - (IF j % 2 = 0 THEN i - 1 ELSE j \div 2) /\ j > 0

\* The body of the do-while
CounterBody(remove, j) ==
    IF j % 2 = 0 THEN SetRows(remove, j, remove[j - 2])
    ELSE [remove EXCEPT ![j] = 0]

\* Mutant of GeneralTerm: the undisturbed determinant is negated.
GeneralTerm_Negated(dim) ==
    <<EFactor_new(dim, <<>>),
      Term_new(-1, None, Determinant_new(RangeTo(dim), RangeTo(dim)))>>

\* The general term
GeneralTerm(dim) ==
    <<EFactor_new(dim, <<>>),
      Term_new(1, None, Determinant_new(RangeTo(dim), RangeTo(dim)))>>

Generating == gen.phase = "terms"

\* The macro is expanded for 4 or 5 indexes by one of the two variants;
\* terms starts with the general term and the counter of one removal.
Generate ==
    /\ gen = NoGen
    /\ \E dim \in Dims, variant \in Variants :
          gen' = [phase |-> "terms", variant |-> variant, dim |-> dim,
                  terms |-> <<GeneralTerm(dim)>>,
                  i |-> 1, remove |-> [n \in 0..1 |-> 0], j |-> 0,
                  rows |-> RangeTo(dim), cols |-> RangeTo(dim),
                  e_factors |-> <<>>, mult |-> 1, chunk |-> 0,
                  pc |-> "while", visits |-> <<>>]
    /\ UNCHANGED <<list, pred, args, result, calls>>

\* The while loop is entered: rows and cols are refilled, e_factors is
\* cleared and mult is 1.
Visit ==
    /\ Generating /\ gen.pc = "while"
    /\ gen.remove[0] <= gen.dim - (gen.i - 1)
    /\ gen' = [gen EXCEPT !.rows = RangeTo(gen.dim), !.cols = RangeTo(gen.dim),
                          !.e_factors = <<>>, !.mult = 1, !.chunk = 0,
                          !.pc = "remove"]
    /\ UNCHANGED <<list, pred, args, result, calls>>

\* for rc in remove.chunks_exact(2): one removal of a row and a column;
\* Vec::remove panics on an index past the end.
Remove ==
    /\ Generating /\ gen.pc = "remove" /\ gen.chunk < gen.i
    /\ IF \/ gen.remove[2 * gen.chunk] >= Len(gen.rows)
          \/ gen.remove[2 * gen.chunk + 1] >= Len(gen.cols)
       THEN gen' = [gen EXCEPT !.phase = "panic"]
       ELSE gen' = [gen EXCEPT
               !.rows = RemoveAt(@, gen.remove[2 * gen.chunk] + 1),
               !.cols = RemoveAt(@, gen.remove[2 * gen.chunk + 1] + 1),
               !.mult = RemovedSign(gen.rows[gen.remove[2 * gen.chunk] + 1],
                                    gen.cols[gen.remove[2 * gen.chunk + 1] + 1], @),
               !.e_factors = Append(@, <<gen.rows[gen.remove[2 * gen.chunk] + 1],
                                         gen.cols[gen.remove[2 * gen.chunk + 1] + 1]>>),
               !.chunk = @ + 1]
    /\ UNCHANGED <<list, pred, args, result, calls>>

\* The determinant of what is left and the terms pushed for it; the
\* counter then starts at its last position.
Push ==
    /\ Generating /\ gen.pc = "remove" /\ gen.chunk = gen.i
    /\ gen' = [gen EXCEPT
            !.terms = @ \o Pushed(gen.dim, gen.mult, gen.e_factors,
                                  Determinant_new(gen.rows, gen.cols)),
            !.visits = Append(@, gen.e_factors),
            !.j = 2 * gen.i - 1,
            !.pc = "count"]
    /\ UNCHANGED <<list, pred, args, result, calls>>

\* One iteration of the do-while that counts in base factorial
CountUp ==
    /\ Generating /\ gen.pc = "count"
    /\ IF CounterCarries(gen.dim, gen.i,
                         CounterBlock(gen.dim, gen.i, gen.remove, gen.j), gen.j)
       THEN gen' = [gen EXCEPT
               !.remove = CounterBody(CounterBlock(gen.dim, gen.i, gen.remove, gen.j), gen.j),
               !.j = gen.j - 1]
       ELSE gen' = [gen EXCEPT
               !.remove = CounterBlock(gen.dim, gen.i, gen.remove, gen.j),
               !.pc = "while"]
    /\ UNCHANGED <<list, pred, args, result, calls>>

\* The while loop exits: the next number of removals, or the end of terms
\* and the empty hash map of term_sums.
NextRemovals ==
    /\ Generating /\ gen.pc = "while"
    /\ gen.remove[0] > gen.dim - (gen.i - 1)
    /\ IF gen.i < gen.dim + 1
       THEN gen' = [gen EXCEPT !.i = gen.i + 1,
                               !.remove = [n \in 0..(2 * gen.i + 1) |-> 0],
                               !.j = 0, !.visits = <<>>]
       ELSE gen' = [phase |-> "sums", variant |-> gen.variant, dim |-> gen.dim,
                    terms |-> gen.terms, sums |-> <<>>, t |-> 1]
    /\ UNCHANGED <<list, pred, args, result, calls>>

\* The position of the key e in the map, 0 when it is vacant
KeyPosition(sums, e, b) ==
    IF \E c \in b..Len(sums) : sums[c][1] = e
    THEN CHOOSE c \in b..Len(sums) :
            sums[c][1] = e /\ \A d \in b..(c - 1) : sums[d][1] # e
    ELSE 0

\* sums.entry(e).or_insert(TermSum::new()).terms.push(term); the map is
\* kept in the order of first insertion
Entered(sums, e, term) ==
    IF KeyPosition(sums, e, 1) = 0 THEN Append(sums, <<e, <<term>>>>)
    ELSE [sums EXCEPT ![KeyPosition(sums, e, 1)][2] = Append(@, term)]

\* Mutant of sort_by_key: the buckets stay in the order of first insertion.
sort_by_key_Unsorted(sums) == sums

\* sums.sort_by_key(|(e, _)| *e)
sort_by_key(sums) == SortSeq(sums, LAMBDA a, b : a[1] < b[1])

\* slice.combination(i): the subsequences of i elements
Combination(s, i) ==
    { LET at == AscendingOf(J) IN [a \in 1..i |-> s[at[a]]] :
        J \in { I \in SUBSET (1..Len(s)) : Cardinality(I) = i } }

\* Determinant::nonzero of the runtime variant: the smaller determinants
SmallerZero(det, zero_dets) ==
    \E i \in 1..(Len(det.cols) - 1) :
       \E combo_r \in Combination(det.rows, i) :
          \A combo_c \in Combination(det.cols, i) :
             Determinant_new(combo_r, combo_c) \in zero_dets

\* Determinant::nonzero: Some(self) or None
nonzero(variant, det, zero_dets) ==
    /\ det \notin zero_dets
    /\ variant = "runtime" => ~SmallerZero(det, zero_dets)

\* The terms of a sum that without_zero_dets keeps
Kept(variant, sum, zero_dets) ==
    SelectSeq(sum, LAMBDA t : nonzero(variant, t.det, zero_dets))

\* Mutant of MagnitudeEqual: one equal coordinate is enough.
MagnitudeEqual_OneCoordinate(variant, dim, det, zero_dets) ==
    /\ variant = "runtime"
    /\ Len(det.cols) = 1
    /\ \E i \in 0..(dim - 1) : Determinant_new(<<det.rows[1]>>, <<i>>) \in zero_dets

\* Special case of the runtime variant: coordinates equal, so the
\* magnitudes do as well.
MagnitudeEqual(variant, dim, det, zero_dets) ==
    /\ variant = "runtime"
    /\ Len(det.cols) = 1
    /\ \A i \in 0..(dim - 1) : Determinant_new(<<det.rows[1]>>, <<i>>) \in zero_dets

\* Mutant of Recorded: a single term records nothing.
Recorded_Nothing(variant, dim, kept, zero_dets) == zero_dets

\* The zero determinants after without_zero_dets
Recorded(variant, dim, kept, zero_dets) ==
    IF Len(kept) = 1 /\ kept[1].var_mult = None
    THEN LET det == kept[1].det
             z == zero_dets \cup {det}
         IN  IF MagnitudeEqual(variant, dim, det, z)
             THEN z \cup {Determinant_new(<<det.rows[1]>>, <<dim>>)}
             ELSE z
    ELSE zero_dets

\* Mutant of SwapLastTwo: the whole row list is reversed.
SwapLastTwo_Reversed(rows) == [a \in 1..Len(rows) |-> rows[Len(rows) + 1 - a]]

\* rows.swap(n - 2, n - 1)
SwapLastTwo(rows) ==
    LET n == Len(rows)
    IN  [a \in 1..n |-> IF a = n - 1 THEN rows[n] ELSE IF a = n THEN rows[n - 1] ELSE rows[a]]

\* prepare_dets_for_cases, for one term
Prepared(dim, term) ==
    LET rows == Append(term.det.rows, dim + 1)
    IN  IF term.const_mult < 0
        THEN Term_new(-term.const_mult, term.var_mult,
                      Determinant_new(SwapLastTwo(rows), term.det.cols))
        ELSE Term_new(term.const_mult, term.var_mult,
                      Determinant_new(rows, term.det.cols))

prepare_dets_for_cases(dim, sum) == [a \in 1..Len(sum) |-> Prepared(dim, sum[a])]

\* cols.last() == Some(&dim)
LastIs(cols, dim) == cols # <<>> /\ cols[Len(cols)] = dim

\* TermSum::case: the shape of the test emitted for the prepared terms, or
\* "panic" when an assertion fails or no branch applies.
Shape(dim, ts) ==
    IF Len(ts) = 1 /\ Len(ts[1].det.cols) = dim + 1
    THEN IF ts[1].const_mult = 1 /\ ts[1].var_mult = None /\ dim \in {2, 3}
         THEN "P0" ELSE "panic"
    ELSE IF Len(ts) = 1 /\ LastIs(ts[1].det.cols, dim)
    THEN IF ts[1].const_mult = 1 /\ ts[1].var_mult = None THEN "P1" ELSE "panic"
    ELSE IF Len(ts) = 1
    THEN IF ts[1].const_mult = 1 /\ ts[1].var_mult = None
         THEN IF Len(ts[1].det.cols) = 0 THEN "tie"
              ELSE IF Len(ts[1].det.cols) = 1 THEN "P2" ELSE "P3"
         ELSE "panic"
    ELSE IF Len(ts) = 2 /\ ts[1].var_mult = None
    THEN IF /\ ts[1].const_mult = 1
            /\ LastIs(ts[1].det.cols, dim)
            /\ ts[2].const_mult = 2
            /\ ts[2].var_mult # None
            /\ ts[2].det.cols # <<>>
            /\ ~LastIs(ts[2].det.cols, dim)
         THEN "P4" ELSE "panic"
    ELSE IF Len(ts) = 2
    THEN IF /\ ts[1].const_mult = 2
            /\ ~LastIs(ts[1].det.cols, dim)
            /\ ts[2].const_mult = 2
            /\ ts[2].var_mult # None
            /\ ts[1].det = ts[2].det
         THEN "P5" ELSE "panic"
    ELSE "panic"

\* Mutant of case: a negative constant is kept by the preparation.
case_Unprepared(dim, sum) ==
    LET ts == [a \in 1..Len(sum) |->
                 Term_new(sum[a].const_mult, sum[a].var_mult,
                          Determinant_new(Append(sum[a].det.rows, dim + 1), sum[a].det.cols))]
    IN  [shape |-> Shape(dim, ts), terms |-> ts]

\* TermSum::case: the preparation, then the test emitted
case(dim, sum) ==
    LET ts == prepare_dets_for_cases(dim, sum)
    IN  [shape |-> Shape(dim, ts), terms |-> ts]

Eliminating == gen.phase = "cases"

\* for (e, term) in terms(dim): the next term enters its bucket
Collect ==
    /\ gen.phase = "sums" /\ gen.t <= Len(gen.terms)
    /\ gen' = [gen EXCEPT
            !.sums = Entered(@, gen.terms[gen.t][1], gen.terms[gen.t][2]),
            !.t = @ + 1]
    /\ UNCHANGED <<list, pred, args, result, calls>>

\* term_sums returns the buckets sorted by epsilon-factor; the table
\* starts with no determinant known to be zero.
SortSums ==
    /\ gen.phase = "sums" /\ gen.t > Len(gen.terms)
    /\ gen' = [phase |-> "cases", variant |-> gen.variant, dim |-> gen.dim,
               terms |-> gen.terms, sums |-> sort_by_key(gen.sums), k |-> 1,
               zero_dets |-> {}, out |-> <<>>, cases |-> <<>>]
    /\ UNCHANGED <<list, pred, args, result, calls>>

\* The next bucket: without_zero_dets, then for a bucket that keeps a term
\* the grid printed (doc) or the case emitted (runtime).
Eliminate ==
    /\ Eliminating /\ gen.k <= Len(gen.sums)
    /\ LET kept == Kept(gen.variant, gen.sums[gen.k][2], gen.zero_dets)
           zero == Recorded(gen.variant, gen.dim, kept, gen.zero_dets)
           c == case(gen.dim, kept)
       IN  gen' = [gen EXCEPT
               !.k = gen.k + 1,
               !.zero_dets = zero,
               !.out = Append(@, kept),
               !.cases = IF gen.variant = "runtime" /\ kept # <<>> THEN Append(@, c) ELSE @,
               !.phase = IF gen.variant = "runtime" /\ kept # <<>> /\ c.shape = "panic"
                         THEN "panic" ELSE @]
    /\ UNCHANGED <<list, pred, args, result, calls>>

\* Every bucket is processed: the expansion is complete.
Complete ==
    /\ Eliminating /\ gen.k > Len(gen.sums)
    /\ gen' = [gen EXCEPT !.phase = "done"]
    /\ UNCHANGED <<list, pred, args, result, calls>>

InitGen ==
    /\ list = <<>>
    /\ pred = "none"
    /\ args = <<>>
    /\ result = FALSE
    /\ calls = <<>>
    /\ gen = NoGen

NextGen ==
    \/ Generate
    \/ Visit
    \/ Remove
    \/ Push
    \/ CountUp
    \/ NextRemovals
    \/ Collect
    \/ SortSums
    \/ Eliminate
    \/ Complete

SpecGen == InitGen /\ [][NextGen]_vars

\* The generator is a sequential program: it keeps running.
SpecGenFair == SpecGen /\ WF_vars(NextGen)

-----------------------------------------------------------------------------
(* Claims about the generator.                                             *)

\* The expansion holds the vector of terms
HasTerms == gen.phase # "none"

\* The expansion holds the sorted buckets
HasSums == HasTerms /\ "zero_dets" \in DOMAIN gen

Finished == gen.phase = "done"

\* C22: the first bucket of term_sums has epsilon-factor 0 and holds
\* exactly the undisturbed predicate (constant 1, no variable multiplier,
\* rows and columns 0..dim); no other term has epsilon-factor 0.
C22_DominantCase ==
    /\ HasTerms =>
          /\ gen.terms[1] = <<0, Term_new(1, None,
                                   Determinant_new(RangeTo(gen.dim), RangeTo(gen.dim)))>>
          /\ \A a \in 2..Len(gen.terms) : gen.terms[a][1] # 0
    /\ HasSums =>
          gen.sums[1] = <<0, <<Term_new(1, None,
                                 Determinant_new(RangeTo(gen.dim), RangeTo(gen.dim)))>>>>

C22_Witness ==
    /\ Finished /\ gen.dim = 3
    /\ Len(gen.terms) > 300
    /\ gen.sums[1][1] = 0 /\ Len(gen.sums[1][2]) = 1

\* The number of terms produced with the epsilon-factor e
TermCount(e) == Cardinality({a \in 1..Len(gen.terms) : gen.terms[a][1] = e})

\* C23: the epsilon-factors of the buckets are strictly increasing, every
\* term is in exactly one bucket, the one keyed by its own epsilon-factor,
\* and a bucket holds only terms produced with its epsilon-factor.
C23_Buckets ==
    HasSums =>
       /\ \A b \in 1..(Len(gen.sums) - 1) : gen.sums[b][1] < gen.sums[b + 1][1]
       /\ \A a \in 1..Len(gen.terms) :
             \E b \in 1..Len(gen.sums) :
                /\ gen.sums[b][1] = gen.terms[a][1]
                /\ \E m \in 1..Len(gen.sums[b][2]) : gen.sums[b][2][m] = gen.terms[a][2]
                /\ \A c \in 1..Len(gen.sums) : gen.sums[c][1] = gen.terms[a][1] => c = b
       /\ \A b \in 1..Len(gen.sums) : \A m \in 1..Len(gen.sums[b][2]) :
             \E a \in 1..Len(gen.terms) : gen.terms[a] = <<gen.sums[b][1], gen.sums[b][2][m]>>
       /\ \A b \in 1..Len(gen.sums) : Len(gen.sums[b][2]) = TermCount(gen.sums[b][1])

C23_Witness ==
    /\ Finished /\ gen.dim = 2
    /\ Len(gen.sums) = 30 /\ Len(gen.terms) = 46
    /\ \E b \in 1..Len(gen.sums) : Len(gen.sums[b][2]) >= 3

StrictlyIncreasing(s) == \A a \in 1..(Len(s) - 1) : s[a] < s[a + 1]

IncreasingDet(det) == StrictlyIncreasing(det.rows) /\ StrictlyIncreasing(det.cols)

\* The determinants of the terms produced, bucketed, kept and recorded as
\* zero have strictly increasing rows and columns.
IncreasingBeforeCases ==
    /\ HasTerms => \A a \in 1..Len(gen.terms) : IncreasingDet(gen.terms[a][2].det)
    /\ HasSums =>
          /\ \A b \in 1..Len(gen.sums) : \A m \in 1..Len(gen.sums[b][2]) :
                IncreasingDet(gen.sums[b][2][m].det)
          /\ \A b \in 1..Len(gen.out) : \A m \in 1..Len(gen.out[b]) :
                IncreasingDet(gen.out[b][m].det)
          /\ \A det \in gen.zero_dets : IncreasingDet(det)

\* C24 as stated: rows and columns of every determinant are strictly
\* increasing, also of the determinants the tests are emitted from.
C24_StrictlyIncreasing ==
    /\ IncreasingBeforeCases
    /\ HasSums =>
          \A n \in 1..Len(gen.cases) : \A m \in 1..Len(gen.cases[n].terms) :
             IncreasingDet(gen.cases[n].terms[m].det)

\* C24 amended: rows and columns are strictly increasing in every
\* determinant up to elimination; in the determinants the tests are
\* emitted from, the columns are strictly increasing, the constant is
\* positive, and the rows are strictly increasing either as they are or
\* after the exchange of their last two entries, one of which is the last
\* point dim+1.
C24_IncreasingUntilPrepared ==
    /\ IncreasingBeforeCases
    /\ HasSums =>
          \A n \in 1..Len(gen.cases) : \A m \in 1..Len(gen.cases[n].terms) :
             LET t == gen.cases[n].terms[m]
                 len == Len(t.det.rows)
                 exchanged == [a \in 1..len |->
                                 IF a = len - 1 THEN t.det.rows[len]
                                 ELSE IF a = len THEN t.det.rows[len - 1]
                                 ELSE t.det.rows[a]]
             IN  /\ StrictlyIncreasing(t.det.cols)
                 /\ t.const_mult > 0
                 /\ len = Len(t.det.cols) + 1
                 /\ \/ StrictlyIncreasing(t.det.rows) /\ t.det.rows[len] = gen.dim + 1
                    \/ /\ len >= 2
                       /\ StrictlyIncreasing(exchanged)
                       /\ t.det.rows[len - 1] = gen.dim + 1

C24_Witness ==
    /\ Finished /\ gen.variant = "runtime" /\ gen.dim = 2
    /\ gen.cases[2].terms[1].det = Determinant_new(<<1, 3, 2>>, <<0, 2>>)
    /\ gen.sums[2][2][1].det = Determinant_new(<<1, 2>>, <<0, 2>>)

\* The in-sphere matrix of the points P: the coordinates, the squared
\* magnitude and 1, one row per point.
InSphereMatrix(P) ==
    [r \in 1..Len(P) |-> P[r] \o <<Dot(P[r], P[r]), 1>>]

\* The minor a Determinant stands for: its rows and columns with the
\* implicit last row and column of 1s.
MinorOf(P, dim, det) ==
    LaplaceDet(InSphereMatrix(P),
               [a \in 1..(Len(det.rows) + 1) |->
                   IF a <= Len(det.rows) THEN det.rows[a] + 1 ELSE dim + 2],
               [a \in 1..(Len(det.cols) + 1) |->
                   IF a <= Len(det.cols) THEN det.cols[a] + 1 ELSE dim + 2])

\* A term read as const_mult * coordinate * minor
TermValue(P, dim, t) ==
    t.const_mult
       * (IF t.var_mult = None THEN 1 ELSE P[t.var_mult[1] + 1][t.var_mult[2] + 1])
       * MinorOf(P, dim, t.det)

RECURSIVE SumValue(_, _, _)
SumValue(P, dim, sum) ==
    IF sum = <<>> THEN 0 ELSE TermValue(P, dim, sum[1]) + SumValue(P, dim, Tail(sum))

\* The power of the perturbation of coordinate c of point r in the
\* epsilon-factor e: the digit of 3^(dim*r + dim-1-c)
Degree(dim, e, r, c) ==
    IF r > dim THEN 0 ELSE (e \div Pow3(dim * r + dim - 1 - c)) % 3

\* The coefficient that entry (r, c) of the perturbed matrix contributes
\* to the part of the monomial e that belongs to point r: coordinate
\* p + eps, magnitude sum of (p + eps)^2, and 1.
EntryCoefficient(P, dim, e, r, c) ==
    LET used == {j \in 0..(dim - 1) : Degree(dim, e, r, j) # 0}
    IN  IF c < dim
        THEN IF used = {} THEN P[r + 1][c + 1]
             ELSE IF used = {c} /\ Degree(dim, e, r, c) = 1 THEN 1 ELSE 0
        ELSE IF c = dim
        THEN IF used = {} THEN Dot(P[r + 1], P[r + 1])
             ELSE IF Cardinality(used) = 1
                  THEN LET j == CHOOSE j \in used : TRUE
                       IN  IF Degree(dim, e, r, j) = 1 THEN 2 * P[r + 1][j + 1] ELSE 1
                  ELSE 0
        ELSE IF used = {} THEN 1 ELSE 0

RECURSIVE PermProduct(_, _, _, _, _)
PermProduct(P, dim, e, q, r) ==
    IF r > dim + 1 THEN 1
    ELSE LET f == EntryCoefficient(P, dim, e, r, q[r + 1] - 1)
         IN  IF f = 0 THEN 0 ELSE f * PermProduct(P, dim, e, q, r + 1)

RECURSIVE SumOver(_, _, _, _)
SumOver(P, dim, e, qs) ==
    IF qs = {} THEN 0
    ELSE LET q == CHOOSE q \in qs : TRUE
         IN  (IF InvOdd(q) THEN -1 ELSE 1) * PermProduct(P, dim, e, q, 0)
                + SumOver(P, dim, e, qs \ {q})

Perms4 == {q \in [1..4 -> 1..4] : Distinct(q)}
Perms5 == {q \in [1..5 -> 1..5] : Distinct(q)}

\* The coefficient of the monomial e in the Leibniz expansion of the
\* determinant of the perturbed in-sphere matrix
TrueCoefficient(P, dim, e) ==
    SumOver(P, dim, e, IF dim = 2 THEN Perms4 ELSE Perms5)

\* Points in general position, from the tests of the evaluator
SamplePoints(dim) ==
    IF dim = 2 THEN {test_in_circle_lists[2]} ELSE {test_in_sphere_lists[1]}

\* The bucket the elimination is about to process
AtBucket == Eliminating /\ gen.k <= Len(gen.sums)

\* C25: the sum of the terms of every bucket, each read as const_mult
\* times the coordinate of var_mult times its minor, is the coefficient of
\* the bucket's epsilon-monomial in the expansion of the perturbed
\* in-sphere determinant.
C25_SumsAreCoefficients ==
    AtBucket =>
       \A P \in SamplePoints(gen.dim) :
          SumValue(P, gen.dim, gen.sums[gen.k][2])
             = TrueCoefficient(P, gen.dim, gen.sums[gen.k][1])

\* The bucket of eps(0,y)^2 * eps(1,y) for dim 2: the generator's only
\* term is +det(rows 2,3; cols x,1), the coefficient is its negative.
C25_Witness ==
    /\ AtBucket /\ gen.dim = 2
    /\ gen.sums[gen.k] = <<11, <<Term_new(1, None, Determinant_new(<<2>>, <<0>>))>>>>
    /\ SumValue(test_in_circle_lists[2], 2, gen.sums[gen.k][2]) = 2
    /\ TrueCoefficient(test_in_circle_lists[2], 2, 11) = -2

\* n positions (row, column) of the matrix 0..dim x 0..dim with strictly
\* increasing rows and pairwise distinct columns
ValidPositions(dim, n, v) ==
    /\ Len(v) = n
    /\ \A a \in 1..n : v[a][1] \in 0..dim /\ v[a][2] \in 0..dim
    /\ \A a \in 1..(n - 1) : v[a][1] < v[a + 1][1]
    /\ \A a, b \in 1..n : a # b => v[a][2] # v[b][2]

PositionSets(dim, n) ==
    {v \in [1..n -> (0..dim) \X (0..dim)] : ValidPositions(dim, n, v)}

\* The while loop is about to exit for the current number of removals
LoopExits ==
    Generating /\ gen.pc = "while" /\ gen.remove[0] > gen.dim - (gen.i - 1)

\* What the counter loop has visited for the current number of removals
VisitsValid ==
    /\ gen.phase = "panic" => HasSums
    /\ Generating =>
          /\ gen.i \in 1..(gen.dim + 1)
          /\ Distinct(gen.visits)
          /\ \A a \in 1..Len(gen.visits) : ValidPositions(gen.dim, gen.i, gen.visits[a])
    /\ LoopExits => Range(gen.visits) = PositionSets(gen.dim, gen.i)

\* C26: for each number n of removed positions the counter loop visits
\* every set of n positions with increasing rows and distinct columns
\* exactly once, never removes at an index outside the remaining lists,
\* and exits; the enumeration terminates.
C26_CounterEnumerates ==
    /\ []VisitsValid
    /\ Generating ~> (gen.phase = "sums")

C26_Witness ==
    /\ LoopExits /\ gen.dim = 3 /\ gen.i = 3
    /\ Len(gen.visits) = 96
    /\ gen.visits[2] = <<<<0, 0>>, <<1, 1>>, <<2, 3>>>>

\* The step that processes bucket gen.k
BucketStep == AtBucket /\ gen'.k = gen.k + 1

\* What one bucket does to the zero-determinant set and to the cases
Eliminated ==
    BucketStep =>
       LET kept == gen'.out[gen.k]
       IN  /\ gen.zero_dets \subseteq gen'.zero_dets
           /\ \A m \in 1..Len(kept) :
                 /\ kept[m].det \notin gen.zero_dets
                 /\ \E n \in 1..Len(gen.sums[gen.k][2]) : gen.sums[gen.k][2][n] = kept[m]
           /\ \A n \in 1..Len(gen.sums[gen.k][2]) :
                 gen.sums[gen.k][2][n].det \in gen.zero_dets =>
                    \A m \in 1..Len(kept) : kept[m] # gen.sums[gen.k][2][n]
           /\ (Len(kept) = 1 /\ kept[1].var_mult = None) => kept[1].det \in gen'.zero_dets
           /\ kept = <<>> => gen'.cases = gen.cases

\* The buckets left with a single term have pairwise different determinants
SingleTermsDiffer ==
    HasSums =>
       \A a, b \in 1..Len(gen.out) :
          (a < b /\ Len(gen.out[a]) = 1 /\ Len(gen.out[b]) = 1)
             => gen.out[a][1].det # gen.out[b][1].det

\* C27: the zero-determinant set only grows while the buckets are
\* processed; a term whose determinant is in the set is dropped; a bucket
\* left with one term and no var_mult adds its determinant to the set; a
\* bucket left with no term emits no case; no determinant is the subject
\* of two single-term cases of one table.
C27_ZeroDeterminants ==
    /\ [][Eliminated]_vars
    /\ []SingleTermsDiffer

C27_Witness ==
    /\ Finished /\ gen.dim = 3
    /\ Cardinality(gen.zero_dets) > 20
    /\ \E b \in 1..Len(gen.out) : gen.out[b] = <<>>
    /\ \E b \in 1..Len(gen.out) :
          Len(gen.out[b]) = 1 /\ Len(gen.sums[b][2]) > 1 /\ gen.out[b][1].det \in gen.zero_dets

Shapes == {"P0", "P1", "P2", "P3", "P4", "P5", "tie"}

\* The assertions of TermSum::case, read on an emitted case
Asserted(dim, c) ==
    LET ts == c.terms
    IN  /\ c.shape \in {"P0", "P1", "P2", "P3", "tie"} =>
              Len(ts) = 1 /\ ts[1].const_mult = 1 /\ ts[1].var_mult = None
        /\ c.shape = "P0" => Len(ts[1].det.cols) = dim + 1
        /\ c.shape = "P1" => ts[1].det.cols[Len(ts[1].det.cols)] = dim
        /\ c.shape \in {"P2", "P3"} =>
              ts[1].det.cols # <<>> /\ \A a \in 1..Len(ts[1].det.cols) : ts[1].det.cols[a] < dim
        /\ c.shape = "tie" => ts[1].det.cols = <<>>
        /\ c.shape = "P4" =>
              /\ Len(ts) = 2
              /\ ts[1].const_mult = 1 /\ ts[1].var_mult = None
              /\ ts[1].det.cols[Len(ts[1].det.cols)] = dim
              /\ ts[2].const_mult = 2 /\ ts[2].var_mult # None
              /\ ts[2].det.cols[Len(ts[2].det.cols)] # dim
        /\ c.shape = "P5" =>
              /\ Len(ts) = 2
              /\ ts[1].const_mult = 2 /\ ts[1].var_mult # None
              /\ ts[2].const_mult = 2 /\ ts[2].var_mult # None
              /\ ts[1].det = ts[2].det
              /\ \A a \in 1..Len(ts[1].det.cols) : ts[1].det.cols[a] < dim

\* C28: for dim 2 and 3 table generation does not abort: every bucket that
\* survives elimination gets a recognised shape and satisfies the
\* assertions of its branch; a bucket of three or more terms, were it to
\* survive whole, would abort.
C28_NoAbort ==
    /\ gen.phase # "panic"
    /\ (HasSums /\ gen.variant = "runtime") =>
          /\ \A n \in 1..Len(gen.cases) :
                gen.cases[n].shape \in Shapes /\ Asserted(gen.dim, gen.cases[n])
          /\ \A b \in 1..Len(gen.out) :
                Len(gen.out[b]) <= 2
          /\ \A b \in 1..Len(gen.sums) :
                Len(gen.sums[b][2]) >= 3 => case(gen.dim, gen.sums[b][2]).shape = "panic"

C28_Witness ==
    /\ Finished /\ gen.variant = "runtime" /\ gen.dim = 3
    /\ Len(gen.cases) = 65
    /\ \A sh \in Shapes : \E n \in 1..Len(gen.cases) : gen.cases[n].shape = sh
    /\ \E b \in 1..Len(gen.sums) : Len(gen.sums[b][2]) >= 3 /\ Len(gen.out[b]) = 2

\* Every coordinate determinant ([r],[c]) of row r is in the set
CoordinatesZero(dim, r, zero_dets) ==
    \A c \in 0..(dim - 1) : Determinant_new(<<r>>, <<c>>) \in zero_dets

MagnitudeDet(dim, r) == Determinant_new(<<r>>, <<dim>>)

\* What the magnitude implication does in one bucket of the runtime variant
MagnitudeImplied ==
    (BucketStep /\ gen.variant = "runtime") =>
       LET kept == gen'.out[gen.k]
       IN  /\ (/\ Len(kept) = 1 /\ kept[1].var_mult = None
               /\ Len(kept[1].det.cols) = 1
               /\ CoordinatesZero(gen.dim, kept[1].det.rows[1], gen'.zero_dets))
                 => MagnitudeDet(gen.dim, kept[1].det.rows[1]) \in gen'.zero_dets
           /\ \A r \in 0..gen.dim :
                 /\ (Len(kept) = 1 /\ kept[1].det = MagnitudeDet(gen.dim, r))
                       => ~CoordinatesZero(gen.dim, r, gen.zero_dets)
                 /\ MagnitudeDet(gen.dim, r) \in gen'.zero_dets \ gen.zero_dets
                       => CoordinatesZero(gen.dim, r, gen'.zero_dets)

\* C30: when a bucket reduces to a single term without var_mult on one
\* column and every coordinate determinant of its first row is in the
\* zero-determinant set, the magnitude determinant of that row is added;
\* no magnitude comparison of a row is emitted once all its coordinate
\* determinants are recorded, and the magnitude determinant is not added
\* while one of them is absent.
C30_MagnitudeImplication ==
    /\ [][MagnitudeImplied]_vars
    /\ [](HasSums /\ gen.variant = "runtime" =>
             \A r \in 0..gen.dim :
                CoordinatesZero(gen.dim, r, gen.zero_dets)
                   => MagnitudeDet(gen.dim, r) \in gen.zero_dets)

C30_Witness ==
    /\ Eliminating /\ gen.variant = "runtime" /\ gen.dim = 2
    /\ gen.k = 14 /\ gen.sums[13][1] = 21
    /\ gen.out[13] = <<Term_new(-1, None, Determinant_new(<<2>>, <<1>>))>>
    /\ CoordinatesZero(2, 2, gen.zero_dets)
    /\ MagnitudeDet(2, 2) \in gen.zero_dets

\* An emitted single-determinant test in the notation of the evaluator's
\* cases: points and columns numbered from 1, the magnitude column MagCol
EvaluatorCase(dim, t) ==
    <<[a \in 1..Len(t.det.rows) |-> t.det.rows[a] + 1],
      [a \in 1..Len(t.det.cols) |->
          IF t.det.cols[a] = dim THEN MagCol ELSE t.det.cols[a] + 1]>>

\* The predicate whose body fn_body emits for dim
PredOfDim(dim) == IF dim = 2 THEN "in_circle" ELSE "in_sphere"

\* The determinant of an emitted test: the prepared rows, the columns and
\* the column of 1s
PreparedMinor(P, dim, det) ==
    LaplaceDet(InSphereMatrix(P),
               [a \in 1..Len(det.rows) |-> det.rows[a] + 1],
               [a \in 1..(Len(det.cols) + 1) |->
                   IF a <= Len(det.cols) THEN det.cols[a] + 1 ELSE dim + 2])

\* val of an emitted test: the determinant, the determinant plus twice a
\* coordinate times a second one, or the sum of two coordinates times one
RECURSIVE EmittedVal(_, _, _)
EmittedVal(P, dim, ts) ==
    IF ts = <<>> THEN 0
    ELSE ts[1].const_mult
            * (IF ts[1].var_mult = None THEN 1
               ELSE P[ts[1].var_mult[1] + 1][ts[1].var_mult[2] + 1])
            * PreparedMinor(P, dim, ts[1].det)
         + EmittedVal(P, dim, Tail(ts))

\* The emitted body run on the points P: the first test that is not zero
\* returns (val > 0) != odd, the last statement is !odd
RECURSIVE EmittedCascade(_, _, _, _, _)
EmittedCascade(P, dim, cases, n, odd) ==
    IF n > Len(cases) \/ cases[n].shape = "tie" THEN ~odd
    ELSE LET val == EmittedVal(P, dim, cases[n].terms)
         IN  IF val # 0 THEN (val > 0) # odd
             ELSE EmittedCascade(P, dim, cases, n + 1, odd)

\* The emitted function on the list l and the indices t: the prologue of
\* fn_body (flip, sort, odd) and the emitted tests
Emitted(dim, cases, l, t) ==
    LET arr == sorted_fn(t)[1]
    IN  EmittedCascade([a \in 1..Len(t) |-> index_fn(l, arr[a])], dim, cases, 1,
                       OddOf(PredOfDim(dim), l, t))

\* The tests emitted, without the final !odd
EmittedTests == SubSeq(gen.cases, 1, Len(gen.cases) - 1)

Emits == Finished /\ gen.variant = "runtime"

\* C29: the tests fn_body emits are the cases of in_circle (dim 2) and of
\* in_sphere (dim 3): the same determinants in the same order and the same
\* final !odd, so both return the same boolean on every input.
C29_MatchesEvaluator ==
    Emits =>
       /\ gen.cases[Len(gen.cases)].shape = "tie"
       /\ Len(EmittedTests) = Len(CasesOf(PredOfDim(gen.dim)))
       /\ \A n \in 1..Len(EmittedTests) :
             /\ Len(EmittedTests[n].terms) = 1
             /\ EvaluatorCase(gen.dim, EmittedTests[n].terms[1])
                   = CasesOf(PredOfDim(gen.dim))[n]
       /\ gen.dim = 2 =>
             \A l \in Range(test_in_circle_lists) :
                Emitted(2, gen.cases, l, <<0, 1, 2, 3>>)
                   = Eval("in_circle", l, <<0, 1, 2, 3>>)

\* The dim-2 table is emitted with its 17 tests and the final !odd; its second
\* test is a sum of two terms, and on the cocircular points (1,0), (3,1),
\* (2,3), (0,2) the emitted function and in_circle return different booleans.
C29_Witness ==
    /\ Emits
    /\ gen.dim = 2
    /\ Len(gen.cases) = 18
    /\ gen.cases[2].shape = "P4"
    /\ Emitted(2, gen.cases, test_in_circle_lists[2], <<0, 1, 2, 3>>) = FALSE
    /\ Eval("in_circle", test_in_circle_lists[2], <<0, 1, 2, 3>>) = TRUE

====
